---- MODULE Spec2Model ----
(***************************************************************************)
(* strands-metrics: the incremental synchronisation engine (client.rs),    *)
(* its store (db.rs), the aggregation (aggregates.rs), the goals           *)
(* (goals.rs) and the command driver (main.rs), as a state machine.        *)
(*                                                                         *)
(* The program is one sequential async task. Every remote call is one      *)
(* step of the model (the local work that follows it, up to the next       *)
(* remote call, belongs to the same step). The remote service (GitHub) is  *)
(* the environment: its collections are state of the model and change by   *)
(* the Remote* actions.                                                    *)
(*                                                                         *)
(* Not carried: the title of a row and, of its serialized `data` blob,     *)
(* all but the author_association the aggregation reads (the rest copies   *)
(* the remote record, whose content the typed columns of the model already *)
(* hold), and progress-bar messages.                                       *)
(***************************************************************************)
EXTENDS Integers, Sequences, FiniteSets, TLC

VARIABLES
    now,      \* Utc::now(), in ticks; every remote call takes one tick
    gh,       \* the remote service: one collection per endpoint, per repository
    db,       \* the SQLite store: one set of rows per table (db.rs)
    pc,       \* where the task is
    ret,      \* where check_limits returns to
    repos,    \* sync_org / sweep_org: the repositories still to process
    repo,     \* the repository being processed
    loc,      \* the locals of the running function
    obs,      \* observations of the run (history, read by the properties only)
    budget    \* what the environment may still do in this behaviour

vars == <<now, gh, db, pc, ret, repos, repo, loc, obs, budget>>

-----------------------------------------------------------------------------
(* Bounds of the model *)

\* items per page (the code asks for per_page = 100)
PerPage == 2
\* command invocations per behaviour
MaxRuns == 2
\* remote changes per behaviour
MaxEnv == 1
\* failed or interrupted remote calls per behaviour
MaxFaults == 1
\* ticks per calendar day
DayLen == 60

-----------------------------------------------------------------------------
(* Values *)

\* SQL NULL / a missing JSON field / Option::None, for numbers and timestamps
NULL == -1

\* "1970-01-01T00:00:00Z"
EPOCH == 0

ORG == "strands-agents"

\* a missing or null JSON string
NullText == "<null>"

\* Page::next when there is no further page
None == -1

Min(a, b) == IF a < b THEN a ELSE b

RECURSIVE SortDesc(_, _)
\* the elements of S as a sequence, by descending K
SortDesc(S, K) ==
    IF S = {} THEN <<>>
    ELSE LET m == CHOOSE x \in S : \A y \in S : K[y] <= K[x]
         IN  <<m>> \o SortDesc(S \ {m}, K)

Range(s) == {s[i] : i \in 1..Len(s)}

-----------------------------------------------------------------------------
(* The remote service *)

Repository(name, archived, private) ==
    [name |-> name, archived |-> archived, private |-> private]

\* the organisation's repositories, in listing order. `archived` and `private`
\* are Option<bool>: "true", "false", or absent
OrgRepos ==
    << Repository("a", "false", "false"),
       Repository("private_c", "false", "false"),
       Repository("d", "true", "false"),
       Repository("b", NullText, NullText),
       Repository("e", "false", "true") >>

RepoNames == {OrgRepos[i].name : i \in 1..Len(OrgRepos)}

PR(id, number, state, author, created, updated, merged, closed) ==
    [id |-> id, number |-> number, state |-> state, author |-> author,
     created_at |-> created, updated_at |-> updated, merged_at |-> merged,
     closed_at |-> closed]

\* the author_association the remote reports in a pull request of this
\* author: a member of the organisation, an outside contributor, or none
author_association(login) ==
    CASE login = "u1" -> "MEMBER"
      [] login = "u2" -> "CONTRIBUTOR"
      [] OTHER -> NullText

Issue(id, number, state, author, created, updated, closed) ==
    [id |-> id, number |-> number, state |-> state, author |-> author,
     created_at |-> created, updated_at |-> updated, closed_at |-> closed,
     status |-> 200]

Comment(id, number, author, created, updated) ==
    [id |-> id, number |-> number, author |-> author, created_at |-> created,
     updated_at |-> updated]

Review(id, number, state, author, submitted) ==
    [id |-> id, number |-> number, state |-> state, author |-> author,
     submitted_at |-> submitted]

Star(user, starred) == [user |-> user, starred_at |-> starred]

Commit(sha, author, date, adds, dels) ==
    [sha |-> sha, author |-> author, date |-> date, additions |-> adds,
     deletions |-> dels]

Run(id, conclusion, created, updated) ==
    [id |-> id, conclusion |-> conclusion, created_at |-> created,
     updated_at |-> updated]

\* An issue's status is what GET /issues/{number} answers for it: 200, or 404
\* / 410 once it is hidden or deleted (it then leaves the listings too).

\* the clock when the first command runs (the remote content is older)
Now0 == 10

Remote0 ==
    [repos |-> OrgRepos,
     rate  |-> [remaining |-> 5000, reset |-> 0],
     since_grain |-> 1,
     pulls |-> [r \in RepoNames |->
        CASE r = "a" -> { PR(101, 1, "open", "u1", 1, 8, NULL, NULL),
                          PR(102, 2, "closed", "u2", 1, 5, 5, 5),
                          PR(103, 3, "open", "u1", 2, 3, NULL, NULL) }
          [] r = "b" -> { PR(201, 1, "open", "u2", 2, 6, NULL, NULL) }
          [] OTHER   -> {}],
     issues |-> [r \in RepoNames |->
        CASE r = "a" -> { Issue(104, 4, "open", "u2", 2, 7, NULL),
                          Issue(105, 5, "open", "u1", 3, 4, NULL) }
          [] r = "b" -> { Issue(202, 2, "open", "u1", 4, 4, NULL) }
          [] OTHER   -> {}],
     issue_comments |-> [r \in RepoNames |->
        CASE r = "a" -> { Comment(111, 4, "u1", 6, 6),
                          Comment(112, 4, "u2", 7, 7),
                          Comment(113, 1, "u2", 8, 8) }
          [] r = "b" -> { Comment(211, 2, "u2", 5, 5) }
          [] OTHER   -> {}],
     pr_comments |-> [r \in RepoNames |->
        CASE r = "a" -> { Comment(121, 1, "u2", 4, 4),
                          Comment(122, 2, "u1", 4, 5),
                          Comment(123, 1, "u1", 8, 8) }
          [] r = "b" -> { Comment(221, 1, "u1", 6, 6) }
          [] OTHER   -> {}],
     reviews |-> [r \in RepoNames |->
        CASE r = "a" -> { Review(131, 1, "COMMENTED", "u2", 4),
                          Review(132, 1, "CHANGES_REQUESTED", "u2", 6),
                          Review(133, 1, "APPROVED", "u2", 8),
                          Review(134, 2, "APPROVED", "u1", 5) }
          [] r = "b" -> { Review(231, 1, "COMMENTED", "u1", 6) }
          [] OTHER   -> {}],
     stars |-> [r \in RepoNames |->
        CASE r = "a" -> { Star("u1", 1), Star("u2", 2), Star("u3", 3) }
          [] r = "b" -> { Star("u1", 2) }
          [] r = "private_c" -> { Star("u2", 1) }
          [] r = "d" -> { Star("u1", 1) }
          [] r = "e" -> { Star("u2", 3) }
          [] OTHER   -> {}],
     commits |-> [r \in RepoNames |->
        CASE r = "a" -> { Commit("s1", "u1", 2, 10, 1),
                          Commit("s2", "u2", 4, 20, 2),
                          Commit("s3", "u1", 6, 30, 3) }
          [] r = "b" -> { Commit("s1", "u1", 2, 10, 1),
                          Commit("s4", "u2", 5, 40, 4) }
          [] OTHER   -> {}],
     runs |-> [r \in RepoNames |->
        CASE r = "a" -> { Run(141, "success", 3, 4),
                          Run(142, "failure", 6, 7),
                          Run(143, NullText, 9, 9) }
          [] r = "b" -> { Run(241, "success", 5, 6) }
          [] r = "d" -> { Run(441, "success", 1, 2) }
          [] r = "e" -> { Run(541, "failure", 2, 3) }
          [] OTHER   -> {}]]

\* a paging whose next cursor is the cursor of the page just returned
Page_again(listing, cursor) ==
    LET from == cursor * PerPage + 1
        to   == Min(Len(listing), (cursor + 1) * PerPage)
    IN  [items |-> SubSeq(listing, from, to),
         next  |-> IF Len(listing) > (cursor + 1) * PerPage
                   THEN cursor ELSE None]

\* one page of a listing: the items at `cursor` of the listing as it is when
\* the page is asked for, and the cursor of the next page, if any
Page(listing, cursor) ==
    LET from == cursor * PerPage + 1
        to   == Min(Len(listing), (cursor + 1) * PerPage)
    IN  [items |-> SubSeq(listing, from, to),
         next  |-> IF Len(listing) > (cursor + 1) * PerPage
                   THEN cursor + 1 ELSE None]

EmptyPage == [items |-> <<>>, next |-> None]

\* sort=updated, direction=desc (ties: by id)
ByUpdated(S) == SortDesc(S, [x \in S |-> x.updated_at * 1000 + x.id])

ById(S) == SortDesc(S, [x \in S |-> x.id])


-----------------------------------------------------------------------------
(* The remote endpoints: what a request returns from the remote content *)

\* GET /orgs/{org}/repos
ListRepos == gh.repos

\* GET /repos/{org}/{repo}/pulls?state=all&sort=updated&direction=desc
ListPulls(r) == ByUpdated(gh.pulls[r])

\* The issue endpoints also list the pull requests, each carrying a
\* pull_request marker.
IssuePayload(x, marker) ==
    [id |-> x.id, number |-> x.number, state |-> x.state, author |-> x.author,
     created_at |-> x.created_at, updated_at |-> x.updated_at,
     closed_at |-> x.closed_at, pull_request |-> marker]

IssueItems(r) ==
    {IssuePayload(i, FALSE) : i \in {x \in gh.issues[r] : x.status = 200}}
        \cup {IssuePayload(p, TRUE) : p \in gh.pulls[r]}

\* the `since` of a request as the remote applies it: the remote compares at
\* its own granularity (since_grain instants), not at the sender's
since_floor(t) == t - (t % gh.since_grain)

\* GET /repos/{org}/{repo}/issues?state=..&since=..  (since: updated at or after)
ListIssues(r, state, since_) ==
    ByUpdated({x \in IssueItems(r) :
                  /\ state = "all" \/ x.state = state
                  /\ \/ since_ = None
                     \/ x.updated_at = NULL
                     \/ x.updated_at >= since_floor(since_)})

GitHubError(status_code, message) ==
    [github |-> TRUE, status_code |-> status_code, message |-> message]

\* an error that is no GitHub error response (transport, decoding, timeout)
OtherError == [github |-> FALSE, status_code |-> 0, message |-> ""]

Ok(json) == [ok |-> TRUE, json |-> json, err |-> OtherError]

Err(e) == [ok |-> FALSE, json |-> IssuePayload(Issue(0, 0, "", "", 0, 0, 0), FALSE), err |-> e]

\* GET /repos/{org}/{repo}/issues/{number}
GetIssue(r, n) ==
    LET hit  == {x \in IssueItems(r) : x.number = n}
        lost == {x \in gh.issues[r] : x.number = n /\ x.status # 200}
    IN  IF hit # {} THEN Ok(CHOOSE x \in hit : TRUE)
        ELSE IF \E x \in lost : x.status = 410
             THEN Err(GitHubError(410, "Gone"))
             ELSE Err(GitHubError(404, "Not Found"))

\* GET /repos/{org}/{repo}/issues/comments?sort=updated&direction=desc&since=..
ListIssueComments(r, since_) ==
    ByUpdated({x \in gh.issue_comments[r] : x.updated_at >= since_floor(since_)})

\* GET /repos/{org}/{repo}/pulls/comments?sort=updated&direction=desc&since=..
ListPrComments(r, since_) ==
    ByUpdated({x \in gh.pr_comments[r] : x.updated_at >= since_floor(since_)})

\* GET /repos/{org}/{repo}/pulls/{number}/reviews
ListReviews(r, n) == ById({x \in gh.reviews[r] : x.number = n})

\* GET /repos/{org}/{repo}/stargazers  (star+json: with starred_at)
ListStargazers(r) ==
    LET S == gh.stars[r]
    IN  SortDesc(S, [x \in S |-> 0 - x.starred_at])

\* GET /repos/{org}/{repo}/commits?since=..  (newest first)
ListCommits(r, since_) ==
    LET S == {x \in gh.commits[r] : x.date >= since_}
    IN  SortDesc(S, [x \in S |-> x.date])

\* GET /repos/{org}/{repo}/commits/{sha}
GetCommit(r, sha) == CHOOSE x \in gh.commits[r] : x.sha = sha

\* date-only truncation ("%Y-%m-%d")
Date(t) == t \div DayLen

\* GET /repos/{org}/{repo}/actions/runs?created=>YYYY-MM-DD : the runs created
\* after the start of that day
ListRuns(r, day) ==
    LET S == {x \in gh.runs[r] : x.created_at = NULL \/ x.created_at >= day * DayLen}
    IN  SortDesc(S, [x \in S |-> x.created_at * 1000 + x.id])

-----------------------------------------------------------------------------
(* The store (db.rs) *)

\* init_db on a new file: every table exists and is empty
init_db ==
    [app_state |-> {}, pull_requests |-> {}, issues |-> {},
     issue_comments |-> {}, pr_reviews |-> {}, pr_review_comments |-> {},
     stargazers |-> {}, commits |-> {}, workflow_runs |-> {},
     daily_metrics |-> {}, goals |-> {}]

\* the raw tables: every table but the checkpoint table, the aggregate and
\* the goals
RawTables == DOMAIN init_db \ {"app_state", "daily_metrics", "goals"}

\* INSERT OR IGNORE: a row in conflict with `row` on the primary key stays
InsertOrReplace_ignoring(table, row, pk) ==
    IF \E x \in table : \A c \in pk : x[c] = row[c] THEN table
    ELSE table \cup {row}

\* INSERT OR REPLACE: the rows in conflict with `row` on the primary key `pk`
\* are deleted, then `row` is inserted
InsertOrReplace(table, row, pk) ==
    {x \in table : \E c \in pk : x[c] # row[c]} \cup {row}

RECURSIVE InsertOrReplaceAll(_, _, _)
\* INSERT OR REPLACE of each row of a sequence, in order
InsertOrReplaceAll(table, rows, pk) ==
    IF rows = <<>> THEN table
    ELSE InsertOrReplaceAll(InsertOrReplace(table, Head(rows), pk), Tail(rows), pk)

\* format!("last_sync_{}_{}", org, repo_name)
last_sync_key(org, repo_name) == <<"last_sync", org, repo_name>>

\* the empty string in a timestamp column (unwrap_or("") / unwrap_or_default())
Blank == -2

\* a watermark cut to whole hundreds of instants
GetCheckpoint_rounded(state, key) ==
    IF \E x \in state : x.key = key
    THEN LET v == (CHOOSE x \in state : x.key = key).value IN v - (v % 100)
    ELSE EPOCH

\* SELECT value FROM app_state WHERE key = ?1 (client.rs 166-182): the stored
\* text parsed, the clock if it does not parse, the epoch when there is no row
GetCheckpoint(state, key) ==
    IF \E x \in state : x.key = key
    THEN LET v == (CHOOSE x \in state : x.key = key).value
         IN  IF v = NULL \/ v = Blank THEN now ELSE v
    ELSE EPOCH


-----------------------------------------------------------------------------
(* Locals, observations, and the environment's budget *)

Loc0 ==
    [cmd |-> "", err |-> FALSE, since |-> EPOCH, cursor |-> 0, items |-> <<>>,
     next |-> None, keep_fetching |-> TRUE, pr_number |-> 0, rcursor |-> 0,
     acc |-> <<>>, remote_open_numbers |-> {}, remote_users |-> {},
     local_open_nums |-> {}, local_num |-> 0, sweep_now |-> 0,
     shas |-> {}, sha |-> ""]

NoSnap == [valid |-> FALSE, db |-> init_db]

NoGet == [repo |-> "", number |-> 0, result |-> Err(OtherError), at |-> 0]

Obs0 ==
    [cmd       |-> "",      \* the last command started
     checked   |-> FALSE,   \* check_limits returned and no remote call followed yet
     unchecked |-> {},      \* the call sites reached without that
     result    |-> "none",  \* of the last command: running | ok | err | killed
     failed    |-> "",      \* the repository whose pass failed in this run
     pending   |-> {},      \* the repositories after it in the list
     passing   |-> "",      \* the repository of the last pass started in this run
     pass_cp   |-> {},      \* its checkpoint row when that pass started
     loops     |-> <<>>,    \* the fetch loops of that pass that returned Ok
     run_db    |-> init_db, \* the store when the run started
     touched   |-> {},      \* the repositories a remote call was made for
     committed |-> {},      \* the repositories whose checkpoint this run wrote
     clean     |-> TRUE,    \* the remote content has not changed since the run started
     snap1     |-> NoSnap,  \* the store after the successful clean sync before the last
     snap2     |-> NoSnap,  \* the store after the last successful clean sync
     last_get  |-> NoGet,   \* the last single-issue fetch the sweep acted on
     metrics   |-> "none",  \* what compute_metrics returned in this run: ok | err
     computed_on |-> None,  \* the day of the last compute_metrics run
     temp      |-> [exists |-> FALSE, rows |-> {}],
                            \* the temporary table of the connection when it returned
     limits    |-> "none",  \* the outcome of the last quota call: ok | err | kill
     slept     |-> None]    \* the seconds the last check_limits slept, if it did

\* a remote call fails, or the process is interrupted during it, only while
\* the behaviour's budget of faults lasts
Outcomes == IF budget.faults > 0 THEN {"ok", "err", "kill"} ELSE {"ok"}

\* the observation of a quota-consuming remote call made at `site`
Called(o, site) ==
    [o EXCEPT !.unchecked = IF o.checked THEN @ ELSE @ \cup {site},
              !.checked = FALSE,
              !.touched = IF repo = "" THEN @ ELSE @ \cup {repo}]

Names(rs) == {rs[i].name : i \in 1..Len(rs)}

\* the observation of the end of a command
Finish(o, res) ==
    LET sync_ok == res = "ok" /\ loc.cmd = "Sync"
    IN  [o EXCEPT !.result = res,
                  !.snap1 = IF sync_ok THEN o.snap2 ELSE @,
                  !.snap2 = IF sync_ok THEN [valid |-> o.clean, db |-> db] ELSE @]

\* the process ends: main returns (main.rs 101, 116) or is interrupted
Exit(res, o) ==
    /\ pc' = "idle" /\ ret' = "" /\ repos' = <<>> /\ repo' = ""
    /\ loc' = Loc0
    /\ obs' = Finish(o, res)

\* the org-level loop of the running command
Driver == IF loc.cmd = "Sync" THEN "sync_org" ELSE "sweep_org"

\* a sync_repo that drops the error of a fetch loop and goes on to its
\* checkpoint write
Caller_dropping_error ==
    IF loc.cmd = "Sync" /\ repo # "" THEN "sync_repo_commit" ELSE Driver

\* where a failed call's error arrives: every `?` between the call and the
\* org-level loop returns it at once (client.rs 184-190, 54, 64)
Caller == Driver

\* a run inside one transaction, rolled back by the failure
after_failure_rollback(store) == obs.run_db

\* the store after a failed call: no transaction is open, so what was
\* written before the failure stays written (client.rs 184-196)
after_failure(store) == store

\* `?` on a failed remote call: the running function and its callers up to
\* sync_org / sweep_org return the error at once; an interruption ends the
\* process on the spot
Throw(out, o) ==
    /\ budget' = [budget EXCEPT !.faults = @ - 1]
    /\ db' = after_failure(db)
    /\ IF out = "kill"
       THEN Exit("killed", [o EXCEPT !.failed = repo, !.pending = Names(repos)])
       ELSE /\ pc' = Caller /\ ret' = ""
            /\ loc' = [Loc0 EXCEPT !.cmd = loc.cmd, !.err = TRUE]
            /\ obs' = IF loc.err THEN o
                      ELSE [o EXCEPT !.failed = repo, !.pending = Names(repos)]
            /\ UNCHANGED <<repos, repo>>

\* self.check_limits().await? and then the step `site`
Checked(site) == pc' = "check_limits" /\ ret' = site

\* the step `site`, with no check_limits before it
Goto(site) == pc' = site /\ ret' = ""

-----------------------------------------------------------------------------
(* Field defaults and row mappings *)

\* Option<number or timestamp>::unwrap_or(d)
OrNum(v, d) == IF v = NULL THEN d ELSE v

\* Option<&str>::unwrap_or(d)
OrText(v, d) == IF v = NullText THEN d ELSE v


\* DateTime::parse_from_rfc3339(s).unwrap_or_else(|_| Utc::now())
parse_or_now(t) == IF t = NULL \/ t = Blank THEN now ELSE t

\* client.rs 430-452; deleted_at is not in the column list: NULL
pull_request_row(r, p) ==
    [id |-> p.id, repo |-> r, number |-> p.number,
     state |-> IF p.state \in {"open", "closed"} THEN p.state ELSE "unknown",
     author |-> OrText(p.author, ""),
     created_at |-> OrNum(p.created_at, Blank),
     updated_at |-> OrNum(p.updated_at, Blank),
     merged_at |-> p.merged_at, closed_at |-> p.closed_at, deleted_at |-> NULL,
     data |-> [author_association |-> author_association(p.author)]]

\* client.rs 540-563; deleted_at is not in the column list: NULL
issue_row(r, issue) ==
    [id |-> OrNum(issue.id, 0), repo |-> r, number |-> OrNum(issue.number, 0),
     state |-> OrText(issue.state, "unknown"),
     author |-> OrText(issue.author, "unknown"),
     created_at |-> OrNum(issue.created_at, Blank),
     updated_at |-> OrNum(issue.updated_at, Blank),
     closed_at |-> issue.closed_at, deleted_at |-> NULL]

\* client.rs 602-627
issue_comment_row(r, c) ==
    [id |-> OrNum(c.id, 0), repo |-> r, issue_number |-> OrNum(c.number, 0),
     author |-> OrText(c.author, "unknown"),
     created_at |-> OrNum(c.created_at, Blank),
     updated_at |-> OrNum(c.updated_at, Blank)]

\* client.rs 666-691
pr_review_comment_row(r, c) ==
    [id |-> OrNum(c.id, 0), repo |-> r, pr_number |-> OrNum(c.number, 0),
     author |-> OrText(c.author, "unknown"),
     created_at |-> OrNum(c.created_at, Blank),
     updated_at |-> OrNum(c.updated_at, Blank)]

\* client.rs 484-500
pr_review_row(r, pr_number, review) ==
    [id |-> review.id, repo |-> r, pr_number |-> pr_number,
     state |-> OrText(review.state, "UNKNOWN"),
     author |-> OrText(review.author, ""),
     submitted_at |-> OrNum(review.submitted_at, Blank)]

\* a stargazers row stamped with the time of the sync
stargazer_row_stamped(r, entry) ==
    [repo |-> r, user |-> entry.user, starred_at |-> now]

\* client.rs 367-372
stargazer_row(r, entry) ==
    [repo |-> r, user |-> entry.user, starred_at |-> entry.starred_at]

\* client.rs 243-275
commit_row(r, sha, detail) ==
    [sha |-> sha, repo |-> r, author |-> OrText(detail.author, "unknown"),
     date |-> OrNum(detail.date, Blank),
     additions |-> OrNum(detail.additions, 0),
     deletions |-> OrNum(detail.deletions, 0)]

\* client.rs 308-335
workflow_run_row(r, run) ==
    [id |-> OrNum(run.id, 0), repo |-> r,
     conclusion |-> OrText(run.conclusion, "in_progress"),
     created_at |-> OrNum(run.created_at, Blank),
     updated_at |-> OrNum(run.updated_at, Blank),
     duration_ms |-> IF run.created_at # NULL /\ run.updated_at # NULL
                     THEN run.updated_at - run.created_at ELSE 0]

\* a loop that also stops at an item updated exactly at the watermark
Fresh_inclusive(items, since_) ==
    LET old == {i \in 1..Len(items) : parse_or_now(items[i].updated_at) <= since_}
        n   == IF old = {} THEN Len(items)
               ELSE (CHOOSE i \in old : \A j \in old : i <= j) - 1
    IN  [items |-> SubSeq(items, 1, n), keep_fetching |-> old = {}]

\* `if updated_at < since { keep_fetching = false; break; }` over one page: the
\* items before the first one older than the watermark, and keep_fetching
Fresh(items, since_) ==
    LET old == {i \in 1..Len(items) : parse_or_now(items[i].updated_at) < since_}
        n   == IF old = {} THEN Len(items)
               ELSE (CHOOSE i \in old : \A j \in old : i <= j) - 1
    IN  [items |-> SubSeq(items, 1, n), keep_fetching |-> old = {}]


-----------------------------------------------------------------------------
(* The aggregation (aggregates.rs) *)

\* db.rs 127-156: the columns of daily_metrics that hold a count or a sum
daily_metrics_counts ==
    {"prs_opened", "prs_merged", "issues_opened", "issues_closed",
     "churn_additions", "churn_deletions", "ci_failures", "ci_runs", "stars",
     "open_issues_count"}

\* db.rs 127-156: the REAL columns of daily_metrics
daily_metrics_reals ==
    {"time_to_first_response", "avg_issue_resolution_time",
     "avg_pr_resolution_time", "time_to_merge_internal",
     "time_to_merge_external"}

\* db.rs 127-156: the columns of daily_metrics; (date, repo) is the primary key
daily_metrics_columns ==
    {"date", "repo"} \cup daily_metrics_counts \cup daily_metrics_reals

\* a REAL value as the mean of n terms of the given sum; n = 0 is SQL NULL
\* (AVG over no row)
Real(sum, n) == [sum |-> sum, n |-> n]

\* the row INSERT ... (date, repo) makes: every other column takes DEFAULT 0
daily_metrics_row(d, r) ==
    [c \in daily_metrics_columns |->
        CASE c = "date" -> d
          [] c = "repo" -> r
          [] c \in daily_metrics_reals -> Real(0, 1)
          [] OTHER -> 0]

\* 2010-01-01, the first day of the window when daily_metrics is empty
METRICS_EPOCH == 0

\* Duration::days(3): how far before the newest stored day the window starts
DIRTY_DAYS == 3

\* SELECT max(date) FROM daily_metrics ... .ok(), an Option as a set of at
\* most one day: NULL (no row) does not convert to a String, hence None
last_metric_date(daily_metrics) ==
    {d \in {x.date : x \in daily_metrics} :
        \A x \in daily_metrics : x.date <= d}

\* a window that always starts at the first day
start_date_full(last) == METRICS_EPOCH

\* aggregates.rs 11-18 (the dates of the table are written by line 61 and
\* always parse)
start_date(last) ==
    IF last = {} THEN METRICS_EPOCH
    ELSE (CHOOSE d \in last : TRUE) - DIRTY_DAYS

\* date(t) = date(d) for a timestamp column t; date('') and date(NULL) are NULL
OnDay(t, d) == t # NULL /\ t # Blank /\ Date(t) = d

\* date(t) <= date(d)
ByDay(t, d) == t # NULL /\ t # Blank /\ Date(t) <= d

\* (closed_at IS NULL OR date(closed_at) > date(d)) under date(created_at) <= date(d)
OpenOn(x, d) ==
    /\ ByDay(x.created_at, d)
    /\ (x.closed_at = NULL \/ (x.closed_at # Blank /\ Date(x.closed_at) > d))

\* The place of a stored timestamp text in the string order `>` compares by.
\* The text ends in "+00:00" where the column was written by to_rfc3339()
\* (pull_requests.created_at, pr_reviews.submitted_at) and in "Z" where the
\* remote text was stored as it came (issues, issue_comments,
\* pr_review_comments); "+" sorts before "Z", and '' before everything.
TextOrder(t, suffix) ==
    IF t = Blank THEN -1 ELSE 2 * t + (IF suffix = "Z" THEN 1 ELSE 0)

\* aggregates.rs 36-40: the rows of `parent`
parent_rows(store) ==
    {[repo |-> x.repo, number |-> x.number, author |-> x.author,
      created_at |-> x.created_at, text |-> TextOrder(x.created_at, "Z")]
        : x \in store.issues}
    \cup
    {[repo |-> x.repo, number |-> x.number, author |-> x.author,
      created_at |-> x.created_at, text |-> TextOrder(x.created_at, "+00:00")]
        : x \in store.pull_requests}

\* aggregates.rs 42-46: the rows of `activity`
activity_rows(store) ==
    {[repo |-> x.repo, ref_number |-> x.issue_number, author |-> x.author,
      activity_at |-> x.created_at, text |-> TextOrder(x.created_at, "Z")]
        : x \in store.issue_comments}
    \cup
    {[repo |-> x.repo, ref_number |-> x.pr_number, author |-> x.author,
      activity_at |-> x.submitted_at,
      text |-> TextOrder(x.submitted_at, "+00:00")]
        : x \in store.pr_reviews}
    \cup
    {[repo |-> x.repo, ref_number |-> x.pr_number, author |-> x.author,
      activity_at |-> x.created_at, text |-> TextOrder(x.created_at, "Z")]
        : x \in store.pr_review_comments}

\* aggregates.rs 47-51: the activity rows joined to a parent row
joined(store, p) ==
    {a \in activity_rows(store) :
        /\ a.repo = p.repo
        /\ a.ref_number = p.number
        /\ a.text > p.text
        /\ a.author # p.author}

\* MIN(activity_at) of a non-empty group
first_activity(group) ==
    CHOOSE a \in group : \A b \in group : a.text <= b.text

\* aggregates.rs 30-54: temp_response_times, one row per (repo, number) that
\* has a joined activity; date('') and julianday('') are NULL (`dated` is
\* false then), and so is the difference
temp_response_times(store) ==
    {[repo |-> p.repo, number |-> p.number,
      dated |-> p.created_at # Blank,
      created_date |-> IF p.created_at = Blank THEN 0
                       ELSE Date(p.created_at),
      hours_to_response |->
          IF p.created_at = Blank THEN NULL
          ELSE first_activity(joined(store, p)).activity_at - p.created_at]
        : p \in {q \in parent_rows(store) : joined(store, q) # {}}}

RECURSIVE SumOf(_)
\* SUM of a column over rows: f maps each row to its term
SumOf(f) ==
    IF DOMAIN f = {} THEN 0
    ELSE LET x == CHOOSE y \in DOMAIN f : TRUE
         IN  f[x] + SumOf([y \in DOMAIN f \ {x} |-> f[y]])

\* AVG of a column over rows; a NULL term is not counted
Avg(f) ==
    LET terms == {x \in DOMAIN f : f[x] # NULL}
    IN  Real(SumOf([x \in terms |-> f[x]]), Cardinality(terms))

\* json_extract(data, '$.author_association') IN ('OWNER', 'MEMBER',
\* 'COLLABORATOR'); NULL is neither IN nor NOT IN
internal == {"OWNER", "MEMBER", "COLLABORATOR"}

\* the pull requests of r merged on day d
merged_on(store, r, d) ==
    {x \in store.pull_requests :
        x.repo = r /\ x.merged_at # NULL /\ OnDay(x.merged_at, d)}

\* julianday(b) - julianday(a), in clock ticks; NULL when either is not a time
Elapsed(a, b) ==
    IF a = NULL \/ a = Blank \/ b = NULL \/ b = Blank THEN NULL ELSE b - a

\* COALESCE(merged_at, closed_at)
Coalesce(a, b) == IF a # NULL THEN a ELSE b

\* aggregates.rs 74-208: the value each UPDATE sets a column of the row
\* (d, r) to
metric(c, store, temp, r, d) ==
    CASE c = "prs_opened" ->
            Cardinality({x \in store.pull_requests :
                            x.repo = r /\ OnDay(x.created_at, d)})
      [] c = "prs_merged" -> Cardinality(merged_on(store, r, d))
      [] c = "issues_opened" ->
            Cardinality({x \in store.issues :
                            x.repo = r /\ OnDay(x.created_at, d)})
      [] c = "issues_closed" ->
            Cardinality({x \in store.issues :
                            x.repo = r /\ x.closed_at # NULL
                            /\ OnDay(x.closed_at, d)})
      [] c = "churn_additions" ->
            SumOf([x \in {y \in store.commits :
                            y.repo = r /\ OnDay(y.date, d)} |-> x.additions])
      [] c = "churn_deletions" ->
            SumOf([x \in {y \in store.commits :
                            y.repo = r /\ OnDay(y.date, d)} |-> x.deletions])
      [] c = "ci_failures" ->
            Cardinality({x \in store.workflow_runs :
                            x.repo = r /\ x.conclusion = "failure"
                            /\ OnDay(x.created_at, d)})
      [] c = "ci_runs" ->
            Cardinality({x \in store.workflow_runs :
                            x.repo = r /\ OnDay(x.created_at, d)})
      [] c = "stars" ->
            Cardinality({x \in store.stargazers :
                            x.repo = r /\ ByDay(x.starred_at, d)})
      [] c = "open_items_count" ->
            Cardinality({x \in store.issues : x.repo = r /\ OpenOn(x, d)})
            + Cardinality({x \in store.pull_requests :
                            x.repo = r /\ OpenOn(x, d)})
      [] c = "open_issues_count" ->
            Cardinality({x \in store.issues : x.repo = r /\ OpenOn(x, d)})
      [] c = "open_prs_count" ->
            Cardinality({x \in store.pull_requests :
                            x.repo = r /\ OpenOn(x, d)})
      [] c = "time_to_first_response" ->
            Avg([x \in {y \in temp :
                            y.repo = r /\ y.dated /\ y.created_date = d}
                    |-> x.hours_to_response])
      [] c = "avg_issue_resolution_time" ->
            Avg([x \in {y \in store.issues :
                            y.repo = r /\ y.closed_at # NULL
                            /\ OnDay(y.closed_at, d)}
                    |-> Elapsed(x.created_at, x.closed_at)])
      [] c = "avg_pr_resolution_time" ->
            Avg([x \in {y \in store.pull_requests :
                            y.repo = r
                            /\ (y.merged_at # NULL \/ y.closed_at # NULL)
                            /\ OnDay(Coalesce(y.merged_at, y.closed_at), d)}
                    |-> Elapsed(x.created_at,
                                Coalesce(x.merged_at, x.closed_at))])
      [] c = "time_to_merge_internal" ->
            Avg([x \in {y \in merged_on(store, r, d) :
                            y.data.author_association \in internal}
                    |-> Elapsed(x.created_at, x.merged_at)])
      [] c = "time_to_merge_external" ->
            Avg([x \in {y \in merged_on(store, r, d) :
                            /\ y.data.author_association # NullText
                            /\ y.data.author_association \notin internal}
                    |-> Elapsed(x.created_at, x.merged_at)])

\* aggregates.rs 74-208: the columns each UPDATE of a day sets, in order
daily_updates ==
    << {"prs_opened", "prs_merged", "issues_opened", "issues_closed"},
       {"churn_additions", "churn_deletions"},
       {"ci_failures", "ci_runs"},
       {"stars"},
       {"open_items_count"},
       {"open_issues_count"},
       {"open_prs_count"},
       {"time_to_first_response"},
       {"avg_issue_resolution_time"},
       {"avg_pr_resolution_time"},
       {"time_to_merge_internal"},
       {"time_to_merge_external"} >>

\* conn.execute(UPDATE daily_metrics SET ...): the statement is prepared
\* against the table, and fails ("no such column") when it sets a column the
\* table does not have
prepares(columns) == columns \subseteq daily_metrics_columns

\* UPDATE daily_metrics SET columns WHERE date = d
update(daily_metrics, columns, store, temp, d) ==
    {IF x.date # d THEN x
     ELSE [c \in DOMAIN x |->
             IF c \in columns THEN metric(c, store, temp, x.repo, d)
             ELSE x[c]]
        : x \in daily_metrics}

RECURSIVE run_updates(_, _, _, _, _)
\* the UPDATEs of day d from the k-th on, each followed by `?`: the first
\* that fails returns its error, with what the statements before it wrote
run_updates(daily_metrics, store, temp, d, k) ==
    IF k > Len(daily_updates)
    THEN [daily_metrics |-> daily_metrics, result |-> "ok"]
    ELSE IF ~prepares(daily_updates[k])
    THEN [daily_metrics |-> daily_metrics, result |-> "err"]
    ELSE run_updates(update(daily_metrics, daily_updates[k], store, temp, d),
                     store, temp, d, k + 1)

\* aggregates.rs 63-72: the repositories with a pull request, an issue, a
\* stargazer or a commit
active_repos(store) ==
    {x.repo : x \in store.pull_requests} \cup {x.repo : x \in store.issues}
        \cup {x.repo : x \in store.stargazers}
        \cup {x.repo : x \in store.commits}

\* INSERT OR IGNORE INTO daily_metrics (date, repo): a (date, repo) already
\* there keeps its row
insert_or_ignore(daily_metrics, d, rs) ==
    daily_metrics \cup
        {daily_metrics_row(d, r) :
            r \in {q \in rs : ~\E x \in daily_metrics :
                                    x.date = d /\ x.repo = q}}

RECURSIVE run_days(_, _, _, _, _)
\* aggregates.rs 59-209: `for i in 0..=num_days`, from day d to `today`
run_days(daily_metrics, store, temp, d, today) ==
    IF d > today
    THEN [daily_metrics |-> daily_metrics, result |-> "ok"]
    ELSE LET day == run_updates(
                        insert_or_ignore(daily_metrics, d, active_repos(store)),
                        store, temp, d, 1)
         IN  IF day.result = "err" THEN day
             ELSE run_days(day.daily_metrics, store, temp, d + 1, today)

\* a connection without the table temp_response_times: main opens one
\* connection per command (main.rs 88), so every run starts with this
NoTemp == [exists |-> FALSE, rows |-> {}]

\* aggregates.rs 30-54: CREATE TEMP TABLE IF NOT EXISTS temp_response_times
\* AS SELECT ...: a table the connection already has is left as it is
create_temp_if_not_exists(temp, store) ==
    IF temp.exists THEN temp
    ELSE [exists |-> TRUE, rows |-> temp_response_times(store)]

\* aggregates.rs 5-215 on the store, with Utc::now() on day `today`: the
\* table it leaves, its result and the temporary table the connection holds
\* when it returns. No transaction is open: each statement is committed as
\* it runs. DROP TABLE IF EXISTS temp_response_times (211-214) follows the
\* loop, so a statement that fails returns before it.
compute(store, today) ==
    LET start == start_date(last_metric_date(store.daily_metrics))
        kept  == {x \in store.daily_metrics : x.date < start}
        temp  == create_temp_if_not_exists(NoTemp, store)
        days  == run_days(kept, store, temp.rows, start, today)
    IN  [daily_metrics |-> days.daily_metrics, result |-> days.result,
         temp |-> IF days.result = "ok" THEN NoTemp ELSE temp]


-----------------------------------------------------------------------------
(* The commands *)

\* the call site of a page fetch: the first page, or a following one
Site(name, cursor) == IF cursor = 0 THEN name ELSE name \o "/next"

\* a fetch loop of sync_repo returned Ok
LoopDone(o, name) == [o EXCEPT !.loops = Append(@, name)]

\* the order of the calls of sync_repo with the second and third exchanged
after_loop_exchanged(name) ==
    CASE name = "pull_requests"  -> "sync_issue_comments"
      [] name = "issue_comments" -> "sync_issues"
      [] name = "issues"         -> "sync_pr_comments"
      [] name = "pr_comments"    -> "sync_stars"
      [] name = "stars"          -> "sync_commits"
      [] name = "commits"        -> "sync_workflows"
      [] name = "workflows"      -> "sync_repo_commit"

\* a sync_repo that returns after its last fetch loop, its checkpoint unwritten
after_loop_uncommitted(name) ==
    CASE name = "pull_requests"  -> "sync_issues"
      [] name = "issues"         -> "sync_issue_comments"
      [] name = "issue_comments" -> "sync_pr_comments"
      [] name = "pr_comments"    -> "sync_stars"
      [] name = "stars"          -> "sync_commits"
      [] name = "commits"        -> "sync_workflows"
      [] name = "workflows"      -> "sync_org"

\* sync_repo (client.rs 184-196): what follows a fetch loop that returned Ok;
\* each call is `.await?`, so nothing follows a loop that returned an error
after_loop(name) ==
    CASE name = "pull_requests"  -> "sync_issues"
      [] name = "issues"         -> "sync_issue_comments"
      [] name = "issue_comments" -> "sync_pr_comments"
      [] name = "pr_comments"    -> "sync_stars"
      [] name = "stars"          -> "sync_commits"
      [] name = "commits"        -> "sync_workflows"
      [] name = "workflows"      -> "sync_repo_commit"

\* the observations of a new process
Started(o, cmd) ==
    [o EXCEPT !.cmd = cmd, !.result = "running", !.failed = "", !.pending = {},
              !.passing = "", !.pass_cp = {}, !.loops = <<>>, !.run_db = db,
              !.touched = {}, !.committed = {}, !.clean = TRUE,
              !.checked = FALSE, !.metrics = "none", !.limits = "none",
              !.slept = None]

\* main, Commands::Sync (main.rs 92-101): sync_org begins with check_limits
main_Sync ==
    /\ pc = "idle" /\ budget.runs > 0
    /\ budget' = [budget EXCEPT !.runs = @ - 1]
    /\ loc' = [Loc0 EXCEPT !.cmd = "Sync"]
    /\ Checked("fetch_repos")
    /\ obs' = Started(obs, "Sync")
    /\ now' = now + 1
    /\ UNCHANGED <<gh, db, repos, repo>>

\* a name that starts with "private_" only when it is that prefix alone
starts_with_private_exact(name) == name = "private_"

\* r.name.starts_with("private_")
starts_with_private(name) == name \in {"private_c"}

\* Option<bool>::unwrap_or(false)
OrFalse(v) == v = "true"

\* the predicate of repos.retain (client.rs 79-83)
retain(r) ==
    /\ ~ OrFalse(r.archived)
    /\ ~ OrFalse(r.private)
    /\ ~ starts_with_private(r.name)

\* one page of the organisation's repositories; after the last one, the
\* archived and private ones are dropped
fetch_repos ==
    /\ pc = "fetch_repos"
    /\ \E out \in Outcomes :
         LET o == Called(obs, Site("fetch_repos", loc.cursor))
         IN  IF out = "ok"
             THEN LET page == Page(ListRepos, loc.cursor)
                      acc  == loc.acc \o page.items
                  IN  /\ IF page.next # None
                         THEN /\ Checked("fetch_repos")
                              /\ loc' = [loc EXCEPT !.cursor = page.next, !.acc = acc]
                              /\ repos' = repos
                         ELSE /\ Goto(Driver)
                              /\ loc' = [loc EXCEPT !.cursor = 0, !.acc = <<>>]
                              /\ repos' = SelectSeq(acc, retain)
                      /\ obs' = o
                      /\ UNCHANGED <<db, repo, budget>>
             ELSE Throw(out, o)
    /\ now' = now + 1
    /\ UNCHANGED gh

\* a main that goes on to compute_metrics whatever sync_org returned
after_sync_org_unchecked(res) == "compute_metrics"

\* main.rs 101-104: `client.sync_org(ORG).await?;` and then
\* `aggregates::compute_metrics(&conn)?;`: the step after sync_org returned
after_sync_org(res) == IF res = "ok" THEN "compute_metrics" ELSE "idle"

\* sync_org returns `res` to main
Returned(res, o) ==
    IF after_sync_org(res) = "idle" THEN Exit(res, o)
    ELSE /\ pc' = after_sync_org(res) /\ ret' = "" /\ repos' = <<>> /\ repo' = ""
         /\ loc' = [Loc0 EXCEPT !.cmd = loc.cmd]
         /\ obs' = Finish(o, res)

\* the loop of sync_org (client.rs 52-56), and main's `?` on its result
\* (main.rs 101). propagate: sync_repo's error ends the loop (the `?` of line 54)
sync_org_step(propagate) ==
    /\ pc = "sync_org"
    /\ IF loc.err /\ (propagate \/ repos = <<>>)
       THEN Returned("err", obs)
       ELSE IF repos = <<>>
       THEN Returned("ok", obs)
       ELSE /\ repo' = Head(repos).name
            /\ repos' = Tail(repos)
            /\ Goto("sync_repo")
            /\ UNCHANGED <<loc, obs>>
    /\ UNCHANGED <<now, gh, db, budget>>

\* a sync_org that logs a repository's error and goes on with the next one
sync_org_continuing == sync_org_step(FALSE)

sync_org == sync_org_step(TRUE)

\* aggregates::compute_metrics(&conn)? (main.rs 104), the last step of the
\* Sync command: the whole of aggregates.rs 5-215, with Utc::now() read once
compute_metrics ==
    /\ pc = "compute_metrics"
    /\ LET out == compute(db, Date(now))
       IN  /\ db' = [db EXCEPT !.daily_metrics = out.daily_metrics]
           /\ obs' = [obs EXCEPT !.metrics = out.result,
                                 !.computed_on = Date(now),
                                 !.temp = out.temp]
    /\ pc' = "idle" /\ ret' = "" /\ loc' = Loc0
    /\ now' = now + 1
    /\ UNCHANGED <<gh, repos, repo, budget>>

\* sync_repo up to its first fetch loop (client.rs 163-184): the watermark is
\* the stored checkpoint, or the epoch
sync_repo ==
    /\ pc = "sync_repo"
    /\ LET key == last_sync_key(ORG, repo)
       IN  /\ loc' = [loc EXCEPT !.since = GetCheckpoint(db.app_state, key),
                                 !.cursor = 0, !.keep_fetching = TRUE]
           /\ obs' = [obs EXCEPT !.passing = repo,
                                 !.pass_cp = {x \in db.app_state : x.key = key},
                                 !.loops = <<>>]
    /\ Checked("sync_pull_requests")
    /\ UNCHANGED <<now, gh, db, repos, repo, budget>>

\* sync_pull_requests: the fetch of one page (client.rs 408-421, 463-465)
sync_pull_requests ==
    /\ pc = "sync_pull_requests"
    /\ \E out \in Outcomes :
         LET o == Called(obs, Site("sync_pull_requests", loc.cursor))
         IN  IF out = "ok"
             THEN LET page == Page(ListPulls(repo), loc.cursor)
                  IN  /\ loc' = [loc EXCEPT !.items = page.items, !.next = page.next]
                      /\ Goto("sync_pull_requests_item")
                      /\ obs' = o
                      /\ UNCHANGED <<db, repos, repo, budget>>
             ELSE Throw(out, o)
    /\ now' = now + 1
    /\ UNCHANGED gh

\* a test that takes a pull request without updated_at for a fresh one
reviews_wanted_undated(p, since_) == p.updated_at = NULL \/ p.updated_at >= since_

\* pr.updated_at.map(|t| t >= since).unwrap_or(false) (client.rs 455)
reviews_wanted(p, since_) == p.updated_at # NULL /\ p.updated_at >= since_

\* sync_pull_requests: the next item of the page, or the end of the page
\* (client.rs 422-469)
sync_pull_requests_item ==
    /\ pc = "sync_pull_requests_item"
    /\ IF loc.items = <<>>
       THEN IF loc.keep_fetching /\ loc.next # None
            THEN /\ Checked("sync_pull_requests")
                 /\ loc' = [loc EXCEPT !.cursor = loc.next]
                 /\ UNCHANGED <<db, obs>>
            ELSE /\ Checked(after_loop("pull_requests"))
                 /\ loc' = [loc EXCEPT !.cursor = 0, !.next = None,
                                       !.keep_fetching = TRUE]
                 /\ obs' = LoopDone(obs, "pull_requests")
                 /\ db' = db
       ELSE LET p == Head(loc.items)
            IN  IF p.updated_at # NULL /\ p.updated_at < loc.since
                THEN /\ loc' = [loc EXCEPT !.keep_fetching = FALSE, !.items = <<>>]
                     /\ UNCHANGED <<pc, ret, db, obs>>
                ELSE /\ db' = [db EXCEPT !.pull_requests =
                                  InsertOrReplace(@, pull_request_row(repo, p), {"id"})]
                     /\ loc' = [loc EXCEPT !.items = Tail(@),
                                           !.pr_number = p.number, !.rcursor = 0]
                     /\ IF reviews_wanted(p, loc.since)
                        THEN Goto("sync_reviews")
                        ELSE UNCHANGED <<pc, ret>>
                     /\ obs' = obs
    /\ UNCHANGED <<now, gh, repos, repo, budget>>

\* sync_reviews: one page of the reviews of a pull request (client.rs 473-511)
sync_reviews ==
    /\ pc = "sync_reviews"
    /\ \E out \in Outcomes :
         LET o == Called(obs, Site("sync_reviews", loc.rcursor))
         IN  IF out = "ok"
             THEN LET page == Page(ListReviews(repo, loc.pr_number), loc.rcursor)
                      rows == [i \in 1..Len(page.items) |->
                                 pr_review_row(repo, loc.pr_number, page.items[i])]
                  IN  /\ db' = [db EXCEPT !.pr_reviews =
                                   InsertOrReplaceAll(@, rows, {"id"})]
                      /\ IF page.next # None
                         THEN /\ Checked("sync_reviews")
                              /\ loc' = [loc EXCEPT !.rcursor = page.next]
                         ELSE /\ Goto("sync_pull_requests_item")
                              /\ loc' = [loc EXCEPT !.rcursor = 0]
                      /\ obs' = o
                      /\ UNCHANGED <<repos, repo, budget>>
             ELSE Throw(out, o)
    /\ now' = now + 1
    /\ UNCHANGED gh

\* a sync_issues that takes every listed record for an issue
is_pull_request_never(issue) == FALSE

\* issue.get("pull_request").is_some() (client.rs 536)
is_pull_request(issue) == issue.pull_request

\* sync_issues: one page (client.rs 516-576)
sync_issues ==
    /\ pc = "sync_issues"
    /\ \E out \in Outcomes :
         LET o == Called(obs, Site("sync_issues", loc.cursor))
         IN  IF out = "ok"
             THEN LET page  == Page(ListIssues(repo, "all", loc.since), loc.cursor)
                      fresh == Fresh(page.items, loc.since)
                      kept  == SelectSeq(fresh.items, LAMBDA x : ~ is_pull_request(x))
                      rows  == [i \in 1..Len(kept) |-> issue_row(repo, kept[i])]
                  IN  /\ db' = [db EXCEPT !.issues = InsertOrReplaceAll(@, rows, {"id"})]
                      /\ IF fresh.keep_fetching /\ page.next # None
                         THEN /\ Checked("sync_issues")
                              /\ loc' = [loc EXCEPT !.cursor = page.next]
                              /\ obs' = o
                         ELSE /\ Checked(after_loop("issues"))
                              /\ loc' = [loc EXCEPT !.cursor = 0]
                              /\ obs' = LoopDone(o, "issues")
                      /\ UNCHANGED <<repos, repo, budget>>
             ELSE Throw(out, o)
    /\ now' = now + 1
    /\ UNCHANGED gh

\* sync_issue_comments: one page (client.rs 582-639)
sync_issue_comments ==
    /\ pc = "sync_issue_comments"
    /\ \E out \in Outcomes :
         LET o == Called(obs, Site("sync_issue_comments", loc.cursor))
         IN  IF out = "ok"
             THEN LET page  == Page(ListIssueComments(repo, loc.since), loc.cursor)
                      fresh == Fresh(page.items, loc.since)
                      rows  == [i \in 1..Len(fresh.items) |->
                                  issue_comment_row(repo, fresh.items[i])]
                  IN  /\ db' = [db EXCEPT !.issue_comments =
                                   InsertOrReplaceAll(@, rows, {"id"})]
                      /\ IF fresh.keep_fetching /\ page.next # None
                         THEN /\ Checked("sync_issue_comments")
                              /\ loc' = [loc EXCEPT !.cursor = page.next]
                              /\ obs' = o
                         ELSE /\ Checked(after_loop("issue_comments"))
                              /\ loc' = [loc EXCEPT !.cursor = 0]
                              /\ obs' = LoopDone(o, "issue_comments")
                      /\ UNCHANGED <<repos, repo, budget>>
             ELSE Throw(out, o)
    /\ now' = now + 1
    /\ UNCHANGED gh

\* sync_pr_comments: one page (client.rs 646-703)
sync_pr_comments ==
    /\ pc = "sync_pr_comments"
    /\ \E out \in Outcomes :
         LET o == Called(obs, Site("sync_pr_comments", loc.cursor))
         IN  IF out = "ok"
             THEN LET page  == Page(ListPrComments(repo, loc.since), loc.cursor)
                      fresh == Fresh(page.items, loc.since)
                      rows  == [i \in 1..Len(fresh.items) |->
                                  pr_review_comment_row(repo, fresh.items[i])]
                  IN  /\ db' = [db EXCEPT !.pr_review_comments =
                                   InsertOrReplaceAll(@, rows, {"id"})]
                      /\ IF fresh.keep_fetching /\ page.next # None
                         THEN /\ Checked("sync_pr_comments")
                              /\ loc' = [loc EXCEPT !.cursor = page.next]
                              /\ obs' = o
                         ELSE /\ Checked(after_loop("pr_comments"))
                              /\ loc' = [loc EXCEPT !.cursor = 0, !.remote_users = {}]
                              /\ obs' = LoopDone(o, "pr_comments")
                      /\ UNCHANGED <<repos, repo, budget>>
             ELSE Throw(out, o)
    /\ now' = now + 1
    /\ UNCHANGED gh

\* a sync_stars that deletes nothing
to_delete_nothing(stargazers, r, remote_users) == {}

\* SELECT user FROM stargazers WHERE repo = ?1, less the remote users
\* (client.rs 383-394)
to_delete(stargazers, r, remote_users) ==
    {x.user : x \in {y \in stargazers : y.repo = r}} \ remote_users

\* `if let Some(next) = next_page { ... } else { break; }` (client.rs 376-381)
last_page(page) == page.next = None

\* a sync_stars that deletes after every page the local stargazers not seen
\* so far
stars_after_page_eager(stargazers, r, remote_users, page) ==
    {x \in stargazers :
        ~ (x.repo = r /\ x.user \in to_delete(stargazers, r, remote_users))}

\* the stargazers table after a page of sync_stars: the DELETEs (client.rs
\* 383-400) follow the loop, so they run only once the page without a next
\* cursor has been read
stars_after_page(stargazers, r, remote_users, page) ==
    IF last_page(page)
    THEN {x \in stargazers :
            ~ (x.repo = r /\ x.user \in to_delete(stargazers, r, remote_users))}
    ELSE stargazers

\* sync_stars: one page; after the last one, the local stargazers that are
\* not in the remote set are deleted (client.rs 357-403)
sync_stars ==
    /\ pc = "sync_stars"
    /\ \E out \in Outcomes :
         LET o == Called(obs, Site("sync_stars", loc.cursor))
         IN  IF out = "ok"
             THEN LET page    == Page(ListStargazers(repo), loc.cursor)
                      entries == SelectSeq(page.items,
                                    LAMBDA e : e.starred_at # NULL /\ e.user # NullText)
                      remote_users == loc.remote_users \cup {e.user : e \in Range(entries)}
                      upserted == InsertOrReplaceAll(db.stargazers,
                                    [i \in 1..Len(entries) |-> stargazer_row(repo, entries[i])],
                                    {"repo", "user"})
                  IN  /\ IF ~last_page(page)
                         THEN /\ Checked("sync_stars")
                              /\ loc' = [loc EXCEPT !.cursor = @ + 1,
                                                    !.remote_users = remote_users]
                              /\ obs' = o
                         ELSE /\ Checked(after_loop("stars"))
                              /\ loc' = [loc EXCEPT !.cursor = 0, !.remote_users = {}]
                              /\ obs' = LoopDone(o, "stars")
                      /\ db' = [db EXCEPT !.stargazers =
                                   stars_after_page(upserted, repo, remote_users, page)]
                      /\ UNCHANGED <<repos, repo, budget>>
             ELSE Throw(out, o)
    /\ now' = now + 1
    /\ UNCHANGED gh

\* sync_commits: the fetch of one page and the set of its shas
\* (client.rs 204-224, 280-282)
sync_commits ==
    /\ pc = "sync_commits"
    /\ \E out \in Outcomes :
         LET o == Called(obs, Site("sync_commits", loc.cursor))
         IN  IF out = "ok"
             THEN LET page == Page(ListCommits(repo, loc.since), loc.cursor)
                  IN  /\ loc' = [loc EXCEPT !.next = page.next,
                                   !.shas = {x.sha : x \in Range(page.items)} \ {NullText}]
                      /\ Goto("sync_commits_sha")
                      /\ obs' = o
                      /\ UNCHANGED <<db, repos, repo, budget>>
             ELSE Throw(out, o)
    /\ now' = now + 1
    /\ UNCHANGED gh

\* a sync_commits with no existence check
commit_exists_unchecked(sha) == FALSE

\* SELECT 1 FROM commits WHERE sha = ?1 (client.rs 228-233)
commit_exists(sha) == \E x \in db.commits : x.sha = sha

\* sync_commits: the next sha of the page's set, in the set's iteration
\* order, or the end of the page (client.rs 226-238, 280-286)
sync_commits_sha ==
    /\ pc = "sync_commits_sha"
    /\ IF loc.shas = {}
       THEN IF loc.next # None
            THEN /\ Checked("sync_commits")
                 /\ loc' = [loc EXCEPT !.cursor = loc.next]
                 /\ obs' = obs
            ELSE /\ Checked(after_loop("commits"))
                 /\ loc' = [loc EXCEPT !.cursor = 0, !.next = None]
                 /\ obs' = LoopDone(obs, "commits")
       ELSE \E sha \in loc.shas :
               /\ IF commit_exists(sha)
                  THEN /\ loc' = [loc EXCEPT !.shas = @ \ {sha}]
                       /\ UNCHANGED <<pc, ret>>
                  ELSE /\ loc' = [loc EXCEPT !.shas = @ \ {sha}, !.sha = sha]
                       /\ Checked("sync_commits_detail")
               /\ obs' = obs
    /\ UNCHANGED <<now, gh, db, repos, repo, budget>>

\* sync_commits: the detail call of one sha and its row (client.rs 240-276)
sync_commits_detail ==
    /\ pc = "sync_commits_detail"
    /\ \E out \in Outcomes :
         LET o == Called(obs, "sync_commits_detail")
         IN  IF out = "ok"
             THEN /\ db' = [db EXCEPT !.commits =
                     InsertOrReplace(@, commit_row(repo, loc.sha, GetCommit(repo, loc.sha)),
                                     {"sha"})]
                  /\ loc' = [loc EXCEPT !.sha = ""]
                  /\ Goto("sync_commits_sha")
                  /\ obs' = o
                  /\ UNCHANGED <<repos, repo, budget>>
             ELSE Throw(out, o)
    /\ now' = now + 1
    /\ UNCHANGED gh

\* sync_workflows: one page (client.rs 292-346)
sync_workflows ==
    /\ pc = "sync_workflows"
    /\ \E out \in Outcomes :
         LET o == Called(obs, Site("sync_workflows", loc.cursor))
         IN  IF out = "ok"
             THEN LET page == Page(ListRuns(repo, Date(loc.since)), loc.cursor)
                      rows == [i \in 1..Len(page.items) |->
                                 workflow_run_row(repo, page.items[i])]
                  IN  /\ db' = [db EXCEPT !.workflow_runs =
                                   InsertOrReplaceAll(@, rows, {"id"})]
                      /\ IF page.next # None
                         THEN /\ Checked("sync_workflows")
                              /\ loc' = [loc EXCEPT !.cursor = page.next]
                              /\ obs' = o
                         ELSE /\ Goto(after_loop("workflows"))
                              /\ loc' = [loc EXCEPT !.cursor = 0]
                              /\ obs' = LoopDone(o, "workflows")
                      /\ UNCHANGED <<repos, repo, budget>>
             ELSE Throw(out, o)
    /\ now' = now + 1
    /\ UNCHANGED gh

\* a checkpoint cut to the day of the pass's watermark
checkpoint_value_truncated == Date(loc.since) * DayLen

\* Utc::now().to_rfc3339() (client.rs 192), an instant of its own: no remote
\* timestamp equals it
checkpoint_value == now + 1

\* sync_repo after its last fetch loop: the checkpoint row (client.rs 192-198)
sync_repo_commit ==
    /\ pc = "sync_repo_commit"
    /\ db' = [db EXCEPT !.app_state =
                 InsertOrReplace(@, [key |-> last_sync_key(ORG, repo),
                                     value |-> checkpoint_value], {"key"})]
    /\ obs' = [obs EXCEPT !.committed = @ \cup {repo}]
    /\ Goto("sync_org")
    /\ now' = now + 1
    /\ UNCHANGED <<gh, repos, repo, loc, budget>>

\* a sleep of reset - now + 10 seconds, or none when that is negative
wait_secs_floored(reset, t) == IF reset - t + 10 > 0 THEN reset - t + 10 ELSE 0

\* reset.saturating_sub(now) + 10 (client.rs 41)
wait_secs(reset, t) == (IF reset > t THEN reset - t ELSE 0) + 10

\* a low-water mark that 50 remaining requests are already under
rate_limit_low_at_50(remaining) == remaining <= 50

\* `core.remaining < 50` (client.rs 38)
rate_limit_low(remaining) == remaining < 50

\* a check_limits that goes on without the quota when the quota call fails
ratelimit_error_assumed_ok == FALSE

\* `self.gh.ratelimit().get().await?` (client.rs 35): the error of the quota
\* call is the result of check_limits
ratelimit_error_returned == TRUE

\* check_limits (client.rs 34-47): the quota is read; under 50 remaining
\* requests the task sleeps until the reset
check_limits ==
    /\ pc = "check_limits"
    /\ \E out \in Outcomes :
         IF out = "ok" \/ (out = "err" /\ ~ratelimit_error_returned)
         THEN LET sleeps == out = "ok" /\ rate_limit_low(gh.rate.remaining)
                  secs   == wait_secs(gh.rate.reset, now + 1)
              IN  /\ pc' = ret /\ ret' = ""
                  /\ obs' = [obs EXCEPT !.checked = TRUE, !.limits = out,
                                        !.slept = IF sleeps THEN secs ELSE None]
                  /\ now' = now + 1 + (IF sleeps THEN secs ELSE 0)
                  /\ UNCHANGED <<db, repos, repo, loc, budget>>
         ELSE Throw(out, [obs EXCEPT !.limits = out]) /\ now' = now + 1
    /\ UNCHANGED gh

\* main, Commands::Sweep (main.rs 108-116): sweep_org begins with check_limits
main_Sweep ==
    /\ pc = "idle" /\ budget.runs > 0
    /\ budget' = [budget EXCEPT !.runs = @ - 1]
    /\ loc' = [Loc0 EXCEPT !.cmd = "Sweep"]
    /\ Checked("fetch_repos")
    /\ obs' = [Started(obs, "Sweep") EXCEPT !.snap1 = NoSnap, !.snap2 = NoSnap]
    /\ now' = now + 1
    /\ UNCHANGED <<gh, db, repos, repo>>

\* the loop of sweep_org (client.rs 62-66), and main's `?` on its result
\* (main.rs 116)
sweep_org ==
    /\ pc = "sweep_org"
    /\ IF loc.err
       THEN Exit("err", obs)
       ELSE IF repos = <<>>
       THEN Exit("ok", obs)
       ELSE /\ repo' = Head(repos).name
            /\ repos' = Tail(repos)
            /\ Goto("sweep_repo")
            /\ loc' = [loc EXCEPT !.cursor = 0, !.remote_open_numbers = {}]
            /\ obs' = obs
    /\ UNCHANGED <<now, gh, db, budget>>

\* a query for the numbers of the repository's rows whatever their state
local_open_any_state(issues, r) == {x.number : x \in {y \in issues : y.repo = r}}

\* SELECT number FROM issues WHERE repo = ?1 AND state = 'open'
\*   AND closed_at IS NULL AND deleted_at IS NULL (client.rs 116-121)
local_open(issues, r) ==
    {x.number : x \in {y \in issues : /\ y.repo = r
                                      /\ y.state = "open"
                                      /\ y.closed_at = NULL
                                      /\ y.deleted_at = NULL}}

\* sweep_repo: one page of the remote open issues; after the last one, the
\* local open issues are read and the sweep's time is taken (client.rs 89-123)
sweep_repo ==
    /\ pc = "sweep_repo"
    /\ \E out \in Outcomes :
         LET o == Called(obs, Site("sweep_repo", loc.cursor))
         IN  IF out = "ok"
             THEN LET page == Page(ListIssues(repo, "open", None), loc.cursor)
                      nums == loc.remote_open_numbers
                                \cup ({x.number : x \in Range(page.items)} \ {NULL})
                  IN  /\ IF page.next # None
                         THEN /\ Checked("sweep_repo")
                              /\ loc' = [loc EXCEPT !.cursor = page.next,
                                                    !.remote_open_numbers = nums]
                         ELSE /\ Goto("sweep_repo_issue")
                              /\ loc' = [loc EXCEPT !.cursor = 0,
                                           !.remote_open_numbers = nums,
                                           !.local_open_nums = local_open(db.issues, repo),
                                           !.sweep_now = now + 1]
                      /\ obs' = o
                      /\ UNCHANGED <<db, repos, repo, budget>>
             ELSE Throw(out, o)
    /\ now' = now + 1
    /\ UNCHANGED gh

\* sweep_repo: the next local open issue, in the order of the query's rows,
\* or the end of the sweep of this repository (client.rs 125-128, 159)
sweep_repo_issue ==
    /\ pc = "sweep_repo_issue"
    /\ IF loc.local_open_nums = {}
       THEN /\ Goto("sweep_org")
            /\ loc' = [loc EXCEPT !.remote_open_numbers = {}, !.sweep_now = 0]
       ELSE \E local_num \in loc.local_open_nums :
               IF local_num \notin loc.remote_open_numbers
               THEN /\ Checked("sweep_repo_get")
                    /\ loc' = [loc EXCEPT !.local_open_nums = @ \ {local_num},
                                          !.local_num = local_num]
               ELSE /\ loc' = [loc EXCEPT !.local_open_nums = @ \ {local_num}]
                    /\ UNCHANGED <<pc, ret>>
    /\ UNCHANGED <<now, gh, db, repos, repo, obs, budget>>

\* ASCII lower case, of the messages the model has
to_ascii_lowercase(m) ==
    CASE m \in {"Not Found", "not found", "NOT FOUND"} -> "not found"
      [] m \in {"Not Found.", "not found."} -> "not found."
      [] m = "Gone" -> "gone"
      [] m = "Server Error" -> "server error"
      [] OTHER -> m

eq_ignore_ascii_case(a, b) == to_ascii_lowercase(a) = to_ascii_lowercase(b)

\* a test for 404 alone
is_missing_resource_404(e) == e.github /\ e.status_code = 404

\* client.rs 707-717
is_missing_resource(e) ==
    /\ e.github
    /\ \/ e.status_code = 404
       \/ e.status_code = 410
       \/ eq_ignore_ascii_case(e.message, "Not Found")
       \/ eq_ignore_ascii_case(e.message, "Not Found.")

\* UPDATE issues SET state = ?1, closed_at = ?2 WHERE repo = ?3 AND number = ?4
update_closed(issues, r, n, json) ==
    {IF x.repo = r /\ x.number = n
     THEN [x EXCEPT !.state = OrText(json.state, "closed"),
                    !.closed_at = json.closed_at]
     ELSE x : x \in issues}

\* UPDATE issues SET state = 'deleted', deleted_at = ?1 WHERE repo = ?2 AND number = ?3
update_deleted(issues, r, n, at) ==
    {IF x.repo = r /\ x.number = n
     THEN [x EXCEPT !.state = "deleted", !.deleted_at = at]
     ELSE x : x \in issues}

\* what a failing single-issue request may answer
Failures == {Err(GitHubError(500, "Server Error")), Err(OtherError)}

\* a sweep that takes every failed request for a missing issue
crash_never(result) == FALSE

\* the last arm of the match (client.rs 150-153): an error that is not a
\* missing resource is returned
crash(result) == ~result.ok /\ ~is_missing_resource(result.err)

\* sweep_repo: the fetch of one issue and what it decides (client.rs 128-156)
sweep_repo_get ==
    /\ pc = "sweep_repo_get"
    /\ \E out \in Outcomes :
         \E result \in IF out = "ok" THEN {GetIssue(repo, loc.local_num)} ELSE Failures :
           LET n == loc.local_num
               o == [Called(obs, "sweep_repo_get") EXCEPT
                        !.last_get = [repo |-> repo, number |-> n, result |-> result,
                                      at |-> loc.sweep_now]]
           IN  IF out # "kill" /\ ~crash(result)
               THEN /\ db' = [db EXCEPT !.issues =
                               IF result.ok
                               THEN update_closed(@, repo, n, result.json)
                               ELSE update_deleted(@, repo, n, loc.sweep_now)]
                    /\ loc' = [loc EXCEPT !.local_num = 0]
                    /\ Goto("sweep_repo_issue")
                    /\ obs' = o
                    /\ UNCHANGED <<repos, repo, budget>>
               ELSE Throw(out, o)
    /\ now' = now + 1
    /\ UNCHANGED gh

-----------------------------------------------------------------------------
(* The remote service changes *)

\* the remote content may change between two commands, and in a live
\* behaviour at any moment
\* (the first command finds the remote content as Init has it)
MayChange ==
    /\ budget.env > 0 /\ budget.runs > 0
    /\ obs.result # "none"
    /\ pc = "idle" \/ budget.live

\* a change takes an instant of its own
Changed ==
    /\ budget' = [budget EXCEPT !.env = @ - 1]
    /\ obs' = [obs EXCEPT !.clean = FALSE, !.snap1 = NoSnap, !.snap2 = NoSnap]
    /\ now' = now + 1
    /\ UNCHANGED <<db, pc, ret, repos, repo, loc>>

\* an issue is closed, or reopened
RemoteUpdateIssue ==
    /\ MayChange
    /\ \E r \in budget.scope : \E x \in gh.issues[r] :
         /\ x.status = 200
         /\ gh' = [gh EXCEPT !.issues[r] = (@ \ {x}) \cup
                     {[x EXCEPT !.state = IF x.state = "open" THEN "closed" ELSE "open",
                                !.closed_at = IF x.state = "open" THEN now + 1 ELSE NULL,
                                !.updated_at = now + 1]}]
    /\ Changed

\* an issue is hidden or deleted (it answers 404 or 410), or comes back
RemoteSetIssueStatus ==
    /\ MayChange
    /\ \E r \in budget.scope : \E x \in gh.issues[r] : \E status \in {200, 404, 410} \ {x.status} :
         gh' = [gh EXCEPT !.issues[r] = (@ \ {x}) \cup {[x EXCEPT !.status = status]}]
    /\ Changed

\* a pull request is updated
RemoteUpdatePR ==
    /\ MayChange
    /\ \E r \in budget.scope : \E p \in gh.pulls[r] :
         gh' = [gh EXCEPT !.pulls[r] = (@ \ {p}) \cup {[p EXCEPT !.updated_at = now + 1]}]
    /\ Changed

\* a commit is pushed
RemotePush ==
    /\ MayChange
    /\ \E r \in budget.scope :
         /\ gh.commits[r] # {}
         /\ \A x \in gh.commits[r] : x.sha # "s9"
         /\ gh' = [gh EXCEPT !.commits[r] = @ \cup {Commit("s9", "u3", now + 1, 1, 1)}]
    /\ Changed

\* the users who star and unstar
Fickle == {"u3"}

\* a user stars a repository, or takes the star back
RemoteStar ==
    /\ MayChange
    /\ \E r \in budget.scope : \E u \in Fickle :
         gh' = [gh EXCEPT !.stars[r] =
                   IF \E e \in @ : e.user = u
                   THEN {e \in @ : e.user # u}
                   ELSE @ \cup {Star(u, now + 1)}]
    /\ Changed

-----------------------------------------------------------------------------

Init ==
    /\ now = Now0
    /\ gh = Remote0
    /\ db = init_db
    /\ pc = "idle" /\ ret = "" /\ repos = <<>> /\ repo = ""
    /\ loc = Loc0
    /\ obs = Obs0
    /\ budget = [runs |-> MaxRuns, faults |-> MaxFaults, env |-> MaxEnv,
                 live |-> FALSE, scope |-> RepoNames]

Next ==
    \/ main_Sync
    \/ check_limits
    \/ fetch_repos
    \/ sync_org
    \/ compute_metrics
    \/ sync_repo
    \/ sync_pull_requests
    \/ sync_pull_requests_item
    \/ sync_reviews
    \/ sync_issues
    \/ sync_issue_comments
    \/ sync_pr_comments
    \/ sync_stars
    \/ sync_commits
    \/ sync_commits_sha
    \/ sync_commits_detail
    \/ sync_workflows
    \/ sync_repo_commit
    \/ main_Sweep
    \/ sweep_org
    \/ sweep_repo
    \/ sweep_repo_issue
    \/ sweep_repo_get
    \/ RemoteUpdateIssue
    \/ RemoteSetIssueStatus
    \/ RemoteUpdatePR
    \/ RemotePush
    \/ RemoteStar

Spec == Init /\ [][Next]_vars


\* the remote content of one repository changes at any moment, also while a
\* pass is running; no call fails
InitLive ==
    /\ now = Now0
    /\ gh = Remote0
    /\ db = init_db
    /\ pc = "idle" /\ ret = "" /\ repos = <<>> /\ repo = ""
    /\ loc = Loc0
    /\ obs = Obs0
    /\ budget = [runs |-> MaxRuns, faults |-> 0, env |-> MaxEnv,
                 live |-> TRUE, scope |-> {"a"}]

\* a running command keeps running: the process takes steps until main returns
\* or the process is interrupted; a sleep of check_limits (client.rs 78-83)
\* ends, and a remote call returns a page or an error
Running ==
    \/ []<>(pc = "idle")
    \/ []<><<pc # "idle">>_vars

\* the commands of Spec, each running on once started
SpecRunning == Init /\ [][Next]_vars /\ Running

SpecLive == InitLive /\ [][Next]_vars

\* syncs and sweeps of one repository whose issues are hidden, restored and
\* updated between the runs; no call fails
InitReconcile ==
    /\ now = Now0
    /\ gh = Remote0
    /\ db = init_db
    /\ pc = "idle" /\ ret = "" /\ repos = <<>> /\ repo = ""
    /\ loc = Loc0
    /\ obs = Obs0
    /\ budget = [runs |-> MaxRuns + 1, faults |-> 0, env |-> MaxEnv + 2,
                 live |-> FALSE, scope |-> {"a"}]

SpecReconcile == InitReconcile /\ [][Next]_vars

\* The aggregation on a store that has a history: raw rows of three days, and
\* daily_metrics rows of earlier runs, for any of a few (date, repo).

\* the k-th instant of day d
At(d, k) == d * DayLen + k

\* the last day the raw rows of the store are about
LastDay == 6

\* the days a daily_metrics row is stored for before the run: two of them
\* more than three days before the last
PriorDays == {0, 2, 5, 6}

MetricsStore ==
    [init_db EXCEPT
       !.app_state =
          {[key |-> last_sync_key(ORG, r), value |-> At(LastDay, 20)]
              : r \in {"a", "b"}},
       !.issues =
          { issue_row("a", Issue(304, 4, "open", "u1",
                                 At(5, 10), At(5, 15), NULL)),
            issue_row("a", Issue(305, 5, "closed", "u2",
                                 At(5, 20), At(6, 2), At(6, 2))),
            issue_row("b", Issue(401, 1, "open", "u1",
                                 At(6, 5), At(6, 5), NULL)) },
       !.issue_comments =
          { issue_comment_row("a", Comment(311, 4, "u1", At(5, 11), At(5, 11))),
            issue_comment_row("a", Comment(312, 4, "u2", At(5, 15), At(5, 15))),
            issue_comment_row("a", Comment(313, 1, "u2", At(5, 30), At(5, 30))) },
       !.pull_requests =
          { pull_request_row("a", PR(301, 1, "closed", "u1", At(5, 30),
                                     At(5, 40), At(5, 40), At(5, 40))),
            pull_request_row("a", PR(302, 2, "closed", "u2", At(5, 31),
                                     At(5, 51), At(5, 51), At(5, 51))),
            pull_request_row("a", PR(303, 3, "closed", "u3", At(5, 32),
                                     At(6, 1), At(6, 1), At(6, 1))),
            pull_request_row("a", PR(306, 6, "closed", "u1", At(3, 1),
                                     At(3, 9), At(3, 9), At(3, 9))) },
       !.pr_reviews =
          { pr_review_row("a", 2, Review(331, 2, "APPROVED", "u1", At(5, 36))),
            pr_review_row("a", 6, Review(332, 6, "APPROVED", "u2", At(3, 5))) },
       !.pr_review_comments =
          { pr_review_comment_row("a", Comment(321, 2, "u1", At(5, 38), At(5, 38))) },
       !.stargazers =
          { stargazer_row("a", Star("u2", At(5, 1))),
            stargazer_row("b", Star("u1", At(6, 6))) },
       !.commits =
          { commit_row("a", "s1", Commit("s1", "u1", At(5, 3), 10, 1)) },
       !.workflow_runs =
          { workflow_run_row("a", Run(341, "failure", At(5, 4), At(5, 5))) }]

\* a daily_metrics row as an earlier run left it
PriorRow(d, r) == [daily_metrics_row(d, r) EXCEPT !["stars"] = 1]

PriorRows == {PriorRow(d, "a") : d \in PriorDays} \cup {PriorRow(LastDay, "b")}

\* sync_org of a Sync command has returned Ok, on the last day or the day after
InitMetrics ==
    /\ now \in {At(LastDay, 30), At(LastDay + 1, 30)}
    /\ gh = Remote0
    /\ \E prior \in SUBSET PriorRows :
         db = [MetricsStore EXCEPT !.daily_metrics = prior]
    /\ pc = "compute_metrics" /\ ret = "" /\ repos = <<>> /\ repo = ""
    /\ loc = [Loc0 EXCEPT !.cmd = "Sync"]
    /\ obs = [Obs0 EXCEPT !.cmd = "Sync", !.result = "ok", !.run_db = db]
    /\ budget = [runs |-> MaxRuns, faults |-> 0, env |-> 0, live |-> FALSE,
                 scope |-> {}]

\* a further Sync command (main.rs 92-104) whose sync_org finds nothing new
\* to fetch and returns Ok, later the same day or a day later: the raw
\* tables are as they were when compute_metrics starts
SyncUnchanged ==
    /\ pc = "idle" /\ budget.runs > 0
    /\ budget' = [budget EXCEPT !.runs = @ - 1]
    /\ pc' = "compute_metrics"
    /\ loc' = [Loc0 EXCEPT !.cmd = "Sync"]
    /\ obs' = [Started(obs, "Sync") EXCEPT !.result = "ok"]
    /\ now' \in {now + 1, now + DayLen}
    /\ UNCHANGED <<gh, db, ret, repos, repo>>

NextMetrics ==
    \/ compute_metrics
    \/ SyncUnchanged

SpecMetrics == InitMetrics /\ [][NextMetrics]_vars

\* One Sync command under a quota the remote reports low or not, with a
\* reset time in the past or in the future; no call fails.

\* the remaining requests the quota call reports
Remainings == {0, 49, 50, 51}

\* the reset times it reports: before the command, during it, after it
Resets == {0, Now0 + 2, Now0 + 20, Now0 + 200}

InitLimits ==
    /\ now = Now0
    /\ \E remaining \in Remainings : \E reset \in Resets :
         gh = [Remote0 EXCEPT !.rate = [remaining |-> remaining,
                                        reset |-> reset]]
    /\ db = init_db
    /\ pc = "idle" /\ ret = "" /\ repos = <<>> /\ repo = ""
    /\ loc = Loc0
    /\ obs = Obs0
    /\ budget = [runs |-> 1, faults |-> 0, env |-> 0, live |-> FALSE,
                 scope |-> {}]

\* the steps of a Sync command
NextSync ==
    \/ main_Sync
    \/ check_limits
    \/ fetch_repos
    \/ sync_org
    \/ compute_metrics
    \/ sync_repo
    \/ sync_pull_requests
    \/ sync_pull_requests_item
    \/ sync_reviews
    \/ sync_issues
    \/ sync_issue_comments
    \/ sync_pr_comments
    \/ sync_stars
    \/ sync_commits
    \/ sync_commits_sha
    \/ sync_commits_detail
    \/ sync_workflows
    \/ sync_repo_commit

SpecLimits == InitLimits /\ [][NextSync]_vars

\* A Sync command of repositories that have a checkpoint, against a remote
\* that applies `since` exactly or by the day: the listings then hold items
\* older than the watermark, and items updated exactly at it.

\* the checkpoint of repository a when the command starts
Watermarks == {4, 5, 7, 8}

\* a pull request of b that carries no updated_at
Undated == PR(203, 3, "open", "u1", 2, NULL, NULL, NULL)

\* rows an earlier pass stored for a pull request and an issue of a, that have
\* changed since: the pull request was closed and is open again, the issue
\* was marked deleted by a sweep and is listed again
StaleRows ==
    [pull_requests |->
        {[pull_request_row("a", PR(101, 1, "closed", "u3", 0, 2, NULL, 2))
            EXCEPT !.data = [author_association |-> "NONE"]]},
     issues |->
        {[issue_row("a", Issue(104, 4, "open", "u3", 1, 1, 3))
            EXCEPT !.state = "deleted", !.deleted_at = 3]}]

InitWatermark ==
    /\ now = Now0
    /\ \E grain \in {1, DayLen} :
         gh = [Remote0 EXCEPT !.since_grain = grain,
                              !.pulls["b"] = @ \cup {Undated},
                              !.reviews["b"] = @ \cup {Review(232, 3, "APPROVED", "u2", 7)}]
    /\ \E wa \in Watermarks : \E wb \in {EPOCH, 5} : \E stale \in BOOLEAN :
         db = [init_db EXCEPT
                 !.app_state =
                    {[key |-> last_sync_key(ORG, "a"), value |-> wa]}
                       \cup (IF wb = EPOCH THEN {}
                             ELSE {[key |-> last_sync_key(ORG, "b"), value |-> wb]}),
                 !.pull_requests = IF stale THEN StaleRows.pull_requests ELSE {},
                 !.issues = IF stale THEN StaleRows.issues ELSE {}]
    /\ pc = "idle" /\ ret = "" /\ repos = <<>> /\ repo = ""
    /\ loc = Loc0
    /\ obs = Obs0
    /\ budget = [runs |-> 1, faults |-> 0, env |-> 0, live |-> FALSE,
                 scope |-> {}]

SpecWatermark == InitWatermark /\ [][NextSync]_vars

\* Sync commands on successive days, against a remote whose running workflow
\* run finishes between two of them; no call fails.

\* a workflow run that is still running gets its conclusion, between two
\* commands
RemoteFinishRun ==
    /\ MayChange /\ pc = "idle"
    /\ \E r \in budget.scope : \E x \in gh.runs[r] :
         /\ x.conclusion = NullText
         /\ gh' = [gh EXCEPT !.runs[r] =
                      (@ \ {x}) \cup {[x EXCEPT !.conclusion = "success",
                                                !.updated_at = now + 1]}]
    /\ Changed

\* the next command is run a day later (the scheduler is outside the program)
Overnight ==
    /\ MayChange /\ pc = "idle"
    /\ budget' = [budget EXCEPT !.env = @ - 1]
    /\ now' = now + DayLen
    /\ UNCHANGED <<gh, db, pc, ret, repos, repo, loc, obs>>

InitWorkflows ==
    /\ now = Now0
    /\ gh = Remote0
    /\ db = init_db
    /\ pc = "idle" /\ ret = "" /\ repos = <<>> /\ repo = ""
    /\ loc = Loc0
    /\ obs = Obs0
    /\ budget = [runs |-> MaxRuns + 1, faults |-> 0, env |-> MaxEnv + 1,
                 live |-> FALSE, scope |-> {"a"}]

NextWorkflows ==
    \/ main_Sync
    \/ check_limits
    \/ fetch_repos
    \/ sync_org
    \/ compute_metrics
    \/ sync_repo
    \/ sync_pull_requests
    \/ sync_pull_requests_item
    \/ sync_reviews
    \/ sync_issues
    \/ sync_issue_comments
    \/ sync_pr_comments
    \/ sync_stars
    \/ sync_commits
    \/ sync_commits_sha
    \/ sync_commits_detail
    \/ sync_workflows
    \/ sync_repo_commit
    \/ RemoteFinishRun
    \/ Overnight

SpecWorkflows == InitWorkflows /\ [][NextWorkflows]_vars

\* A Sync command against a remote some of whose records of repository a
\* lack their leaf fields; the store may hold the row of a stargazer of a, and
\* the rows an earlier Sync stored for such records of repository b.

\* an issue without id, number, state, user, created_at and updated_at
BareIssue == Issue(NULL, NULL, NullText, NullText, NULL, NULL, NULL)

\* a workflow run without id, conclusion, created_at and updated_at
BareRun == Run(NULL, NullText, NULL, NULL)

\* stargazer entries without starred_at, and without user
BareStars == {Star("u4", NULL), Star(NullText, 5)}

InitMalformed ==
    /\ now = Now0
    /\ \E bare \in SUBSET {"issue", "run", "star"} :
         gh = [Remote0 EXCEPT
                 !.issues["a"] = @ \cup (IF "issue" \in bare THEN {BareIssue} ELSE {}),
                 !.runs["a"] = @ \cup (IF "run" \in bare THEN {BareRun} ELSE {}),
                 !.stars["a"] = @ \cup (IF "star" \in bare THEN BareStars ELSE {})]
    /\ \E known \in BOOLEAN : \E prior \in BOOLEAN :
         db = [init_db EXCEPT
                 !.stargazers =
                    IF known THEN {stargazer_row("a", Star("u4", 2))} ELSE {},
                 !.issues =
                    IF prior THEN {issue_row("b", BareIssue)} ELSE {},
                 !.workflow_runs =
                    IF prior THEN {workflow_run_row("b", BareRun)} ELSE {}]
    /\ pc = "idle" /\ ret = "" /\ repos = <<>> /\ repo = ""
    /\ loc = Loc0
    /\ obs = Obs0
    /\ budget = [runs |-> 1, faults |-> 0, env |-> 0, live |-> FALSE,
                 scope |-> {}]

SpecMalformed == InitMalformed /\ [][NextSync]_vars

\* A Sweep command on a store that earlier Sync commands filled, the remote
\* issues having changed since: one call may fail.

\* the issues of repository a as the last Sync command stored them: three
\* open, one closed, one open that an earlier sweep marked deleted
SweepIssues ==
    {issue_row("a", Issue(104, 4, "open", "u2", 2, 7, NULL)),
     issue_row("a", Issue(105, 5, "open", "u1", 3, 4, NULL)),
     issue_row("a", Issue(106, 6, "open", "u3", 3, 5, NULL)),
     issue_row("a", Issue(107, 7, "closed", "u1", 1, 6, 6)),
     [issue_row("a", Issue(108, 8, "open", "u2", 1, 2, NULL))
        EXCEPT !.state = "deleted", !.deleted_at = 9],
     issue_row("b", Issue(202, 2, "open", "u1", 4, 4, NULL))}

SweepStore ==
    [init_db EXCEPT
       !.issues = SweepIssues,
       !.app_state = {[key |-> last_sync_key(ORG, "a"), value |-> 8],
                      [key |-> last_sync_key(ORG, "b"), value |-> 9]}]

\* what became of an issue on the remote side
Fates == {"open", "closed", "hidden", "gone"}

Fated(x, fate) ==
    CASE fate = "open"   -> x
      [] fate = "closed" -> [x EXCEPT !.state = "closed", !.closed_at = 9,
                                      !.updated_at = 9]
      [] fate = "hidden" -> [x EXCEPT !.status = 404]
      [] fate = "gone"   -> [x EXCEPT !.status = 410]

InitSweep ==
    /\ now = Now0
    /\ \E fate \in [{4, 5, 6} -> Fates] :
         gh = [Remote0 EXCEPT !.issues["a"] =
                 {Fated(Issue(104, 4, "open", "u2", 2, 7, NULL), fate[4]),
                  Fated(Issue(105, 5, "open", "u1", 3, 4, NULL), fate[5]),
                  Fated(Issue(106, 6, "open", "u3", 3, 5, NULL), fate[6]),
                  Issue(107, 7, "open", "u1", 1, 9, NULL),
                  Fated(Issue(108, 8, "open", "u2", 1, 2, NULL), "hidden")}]
    /\ db = SweepStore
    /\ pc = "idle" /\ ret = "" /\ repos = <<>> /\ repo = ""
    /\ loc = Loc0
    /\ obs = Obs0
    /\ budget = [runs |-> 1, faults |-> MaxFaults, env |-> 0, live |-> FALSE,
                 scope |-> {}]

\* the steps of a Sweep command
NextSweep ==
    \/ main_Sweep
    \/ check_limits
    \/ fetch_repos
    \/ sweep_org
    \/ sweep_repo
    \/ sweep_repo_issue
    \/ sweep_repo_get

SpecSweep == InitSweep /\ [][NextSweep]_vars

-----------------------------------------------------------------------------
(* The goals (goals.rs) *)

\* 1.0, with ratios counted in hundredths
ONE == 100

\* Direction::as_str
as_str(direction) ==
    IF direction = "LowerIsBetter" THEN "lower_is_better" ELSE "higher_is_better"

\* GoalEntry (goals.rs 36-41); an Option<f64> is a set of at most one number
GoalEntry(value, label, direction, warning_ratio) ==
    [value |-> value, label |-> label, direction |-> direction,
     warning_ratio |-> warning_ratio]

\* `ratio <= 0.0 || ratio >= 1.0` (goals.rs 133)
out_of_range(ratio) == ratio <= 0 \/ ratio >= ONE

\* INSERT INTO goals ... ON CONFLICT(metric) DO UPDATE SET every other column
\* (goals.rs 144-154)
upsert_goal(goals, name, entry, t) ==
    {x \in goals : x.metric # name}
        \cup {[metric |-> name, value |-> entry.value, label |-> entry.label,
                direction |-> as_str(entry.direction),
                warning_ratio |-> entry.warning_ratio, updated_at |-> t]}

RECURSIVE load_goals(_, _, _, _)
\* goals.rs 124-159 on the entries of `config` in the order the map yields
\* them: each entry is validated and then written, one after the other; no
\* transaction is open
load_goals(goals, config, order, t) ==
    IF order = <<>> THEN [goals |-> goals, result |-> "ok"]
    ELSE LET name   == Head(order)
             entry  == config[name]
         IN  IF \E ratio \in entry.warning_ratio : out_of_range(ratio)
             THEN [goals |-> goals, result |-> "err"]
             ELSE load_goals(upsert_goal(goals, name, entry, t), config,
                             Tail(order), t)

\* a ratio that is the same for both directions
default_warning_ratio_flat(direction) == 75

\* Direction::default_warning_ratio (goals.rs 26-31), in hundredths
default_warning_ratio(direction) ==
    IF direction = "LowerIsBetter" THEN 75 ELSE 70

\* Option::unwrap_or_else / COALESCE(x, d) on an optional number
unwrap_or(opt, d) == IF opt = {} THEN d ELSE CHOOSE r \in opt : TRUE

\* Goal::warning_value (goals.rs 58-64), in hundredths of the value's unit
warning_value(goal) ==
    goal.value * unwrap_or(goal.warning_ratio,
                           default_warning_ratio(goal.direction))

\* list_goals (goals.rs 162-188): the Goal of every row; a direction text
\* that is neither of the two names, or NULL, reads as LowerIsBetter
list_goals(goals) ==
    {[metric |-> x.metric, value |-> x.value, label |-> x.label,
      direction |-> CASE x.direction = "lower_is_better" -> "LowerIsBetter"
                      [] x.direction = "higher_is_better" -> "HigherIsBetter"
                      [] OTHER -> "LowerIsBetter",
      warning_ratio |-> x.warning_ratio] : x \in goals}

\* the view goal_thresholds (goals.rs 91-109)
goal_thresholds(goals) ==
    {[metric |-> x.metric, goal_value |-> x.value, label |-> x.label,
      direction |-> x.direction, warning_ratio |-> x.warning_ratio,
      warning_value |->
          CASE x.direction = "lower_is_better" ->
                   x.value * unwrap_or(x.warning_ratio, 75)
            [] x.direction = "higher_is_better" ->
                   x.value * unwrap_or(x.warning_ratio, 70)
            [] OTHER -> x.value * 75]
        : x \in {g \in goals : g.direction # NullText}}

\* the metrics a configuration file names
Metrics == {"m1", "m2"}

\* the entries a configuration file gives a metric
Entries ==
    {GoalEntry(24, NullText, d, w) :
        d \in {"LowerIsBetter", "HigherIsBetter"},
        w \in {{}, {50}, {0}, {ONE}}}

\* the configuration files: config.goals, a HashMap from metric to entry
Configs == UNION {[ms -> Entries] : ms \in SUBSET Metrics}

\* the orders a HashMap can yield its keys in
Orders(keys) ==
    {s \in UNION {[1..n -> keys] : n \in {Cardinality(keys)}} :
        \A k \in keys : \E i \in DOMAIN s : s[i] = k}

\* main, Commands::LoadGoals (main.rs 147-150): load_goals on a parsed file
main_LoadGoals ==
    /\ pc = "idle" /\ budget.runs > 0
    /\ budget' = [budget EXCEPT !.runs = @ - 1]
    /\ \E config \in Configs : \E order \in Orders(DOMAIN config) :
         LET out == load_goals(db.goals, config, order, now)
         IN  /\ db' = [db EXCEPT !.goals = out.goals]
             /\ obs' = [Started(obs, "LoadGoals") EXCEPT !.result = out.result]
    /\ now' = now + 1
    /\ UNCHANGED <<gh, pc, ret, repos, repo, loc>>

\* a new store (init_goals_table, main.rs 89, creates the goals table empty)
\* on which only LoadGoals commands run
InitGoals ==
    /\ now = Now0
    /\ gh = Remote0
    /\ db = init_db
    /\ pc = "idle" /\ ret = "" /\ repos = <<>> /\ repo = ""
    /\ loc = Loc0
    /\ obs = Obs0
    /\ budget = [runs |-> MaxRuns, faults |-> 0, env |-> 0, live |-> FALSE,
                 scope |-> {}]

NextGoals == main_LoadGoals

SpecGoals == InitGoals /\ [][NextGoals]_vars

-----------------------------------------------------------------------------
(* Properties *)

\* the repositories sync_org and sweep_org process
Eligible == Names(SelectSeq(OrgRepos, retain))

\* the checkpoint row of a repository (none, or one)
CheckpointRow(state, r) == {x \in state : x.key = last_sync_key(ORG, r)}

Checkpoint(state, r) == GetCheckpoint(state, last_sync_key(ORG, r))

SevenLoops ==
    <<"pull_requests", "issues", "issue_comments", "pr_comments", "stars",
      "commits", "workflows">>

\* C1: the checkpoint row of a repository is written only by the step that
\* follows the seven fetch loops of its pass, all returned Ok; while a pass is
\* open, and after it failed, the repository's checkpoint row is the one the
\* pass started with.
C1_CheckpointOnlyAfterAllLoops ==
    /\ [](obs.passing # "" /\ obs.passing \notin obs.committed
            => CheckpointRow(db.app_state, obs.passing) = obs.pass_cp)
    /\ [][db.app_state' # db.app_state
            => /\ pc = "sync_repo_commit"
               /\ obs.loops = SevenLoops
               /\ obs.failed = ""
               /\ \A r \in RepoNames \ {repo} :
                     CheckpointRow(db.app_state', r) = CheckpointRow(db.app_state, r)]_vars

\* a pass of a repository that had a checkpoint failed after some of its loops
C1_Witness ==
    /\ pc = "idle" /\ obs.result = "err" /\ obs.failed = "a"
    /\ obs.pass_cp # {}
    /\ Len(obs.loops) >= 4

\* at most one row per primary key, in every table
OneRowPerKey(store) ==
    /\ \A t \in {"pull_requests", "issues", "issue_comments", "pr_reviews",
                 "pr_review_comments", "workflow_runs"} :
          \A x, y \in store[t] : x.id = y.id => x = y
    /\ \A x, y \in store.stargazers : x.repo = y.repo /\ x.user = y.user => x = y
    /\ \A x, y \in store.commits : x.sha = y.sha => x = y
    /\ \A x, y \in store.app_state : x.key = y.key => x = y

\* C4: of two successful sync runs in a row during which the remote content
\* did not change (no sweep between them), the second leaves every raw table
\* as the first left it, with one row per primary key, and writes every
\* processed repository's checkpoint again.
C4_SyncIdempotent ==
    obs.snap1.valid /\ obs.snap2.valid
        => /\ \A t \in RawTables : obs.snap2.db[t] = obs.snap1.db[t]
           /\ OneRowPerKey(obs.snap2.db)
           /\ \A r \in Eligible :
                 Checkpoint(obs.snap2.db.app_state, r) > Checkpoint(obs.snap1.db.app_state, r)

\* two successful sync runs in a row on unchanged remote content, with rows
\* in every raw table
C4_Witness ==
    /\ obs.snap1.valid /\ obs.snap2.valid
    /\ \A t \in RawTables : obs.snap2.db[t] # {}

\* C5: a repository's checkpoint never moves to an earlier timestamp and is
\* never removed; it changes only in the step that ends a pass of that
\* repository whose seven loops all returned Ok, whatever failed or was
\* interrupted before.
C5_CheckpointMonotonic ==
    [][\A r \in RepoNames :
          /\ Checkpoint(db.app_state', r) >= Checkpoint(db.app_state, r)
          /\ CheckpointRow(db.app_state, r) # {} => CheckpointRow(db.app_state', r) # {}
          /\ CheckpointRow(db.app_state', r) # CheckpointRow(db.app_state, r)
                => /\ pc = "sync_repo_commit" /\ repo = r
                   /\ obs.loops = SevenLoops
                   /\ Checkpoint(db.app_state', r) > Checkpoint(db.app_state, r)]_vars

\* a checkpoint written by an earlier run has been overwritten by a later one
C5_Witness ==
    /\ "a" \in obs.committed
    /\ CheckpointRow(obs.run_db.app_state, "a") # {}
    /\ Checkpoint(db.app_state, "a") > Checkpoint(obs.run_db.app_state, "a")

\* C6: the detail call of a sha is made only while no commits row has that
\* sha, and no step changes or removes a commits row.
C6_CommitImmutability ==
    /\ [](pc = "sync_commits_detail" \/ (pc = "check_limits" /\ ret = "sync_commits_detail")
            => \A x \in db.commits : x.sha # loc.sha)
    /\ [][\A x \in db.commits : x \in db.commits']_vars

\* a page lists a sha that is already stored, and the loop is about to pass it
C6_Witness ==
    /\ pc = "sync_commits_sha"
    /\ \E sha \in loc.shas : \E x \in db.commits : x.sha = sha /\ x.repo # repo

\* C7: no quota-consuming remote call is made without check_limits right
\* before it.
C7_EveryCallChecked == obs.unchecked = {}

\* C8: when a pass fails in sync_org, the only step left is the return of the
\* error: no remote call is made for a later repository, no checkpoint of the
\* failing or of a later repository is written, and the run ends with the error.
C8_SyncOrgAborts ==
    obs.cmd = "Sync" /\ obs.failed # "" /\ obs.result # "killed"
        => /\ pc \in {"sync_org", "idle"}
           /\ pc = "idle" => obs.result = "err"
           /\ obs.pending \cap obs.touched = {}
           /\ \A r \in obs.pending \cup {obs.failed} :
                 /\ r \notin obs.committed
                 /\ CheckpointRow(db.app_state, r) = CheckpointRow(obs.run_db.app_state, r)

\* the pass of the first repository failed and the run returned the error
C8_Witness ==
    /\ pc = "idle" /\ obs.cmd = "Sync" /\ obs.result = "err"
    /\ obs.failed = "a" /\ obs.pending = {"b"}
    /\ obs.touched = {"a"}

\* C9: the failure of a pass, and the return of its error, leave the store as
\* it is: the checkpoints the run wrote before keep their advanced values and
\* the rows written before the failure stay.
C9_NoGlobalRollback ==
    /\ [][obs.cmd' = "Sync" /\ obs.failed' # "" => db' = db]_vars
    /\ [](obs.cmd = "Sync" /\ obs.failed # ""
            => \A r \in obs.committed :
                  Checkpoint(db.app_state, r) > Checkpoint(obs.run_db.app_state, r))

\* a run failed at the second repository after the first one's checkpoint was
\* written and after rows of the second were stored
C9_Witness ==
    /\ pc = "idle" /\ obs.cmd = "Sync" /\ obs.result = "err"
    /\ obs.failed = "b" /\ obs.committed = {"a"}
    /\ \E x \in db.issues : x.repo = "b"
    /\ \E x \in obs.run_db.app_state : TRUE

\* the rows of the issue a single-issue fetch was about
Fetched(issues, g) == {x \in issues : x.repo = g.repo /\ x.number = g.number}

\* C10: in the sweep, a local open issue is passed over only if the remote
\* open set has its number; for the others the single-issue fetch decides: a
\* payload sets state and closed_at of the row, a 404 or 410 sets state
\* 'deleted' and deleted_at to the sweep's time.
C10_SweepDecides ==
    [][/\ pc = "sweep_repo_issue" /\ pc' = pc
            => loc.local_open_nums \ loc.local_open_nums' \subseteq loc.remote_open_numbers
       /\ pc = "sweep_repo_get" /\ pc' # pc /\ obs.result' # "killed"
            => LET g == obs.last_get'
               IN  /\ g.repo = repo /\ g.number = loc.local_num
                   /\ g.number \notin loc.remote_open_numbers
                   /\ Fetched(db.issues, g) # {}
                   /\ g.result.ok
                        => \A x \in Fetched(db.issues', g) :
                              /\ x.state = g.result.json.state
                              /\ x.closed_at = g.result.json.closed_at
                   /\ ~ g.result.ok /\ g.result.err.github
                                    /\ g.result.err.status_code \in {404, 410}
                        => \A x \in Fetched(db.issues', g) :
                              /\ x.state = "deleted"
                              /\ x.deleted_at = loc.sweep_now
                              /\ x.deleted_at <= now]_vars

\* the sweep marked an issue deleted on a 410
C10_Witness ==
    /\ obs.last_get.result.err.status_code = 410
    /\ \E x \in Fetched(db.issues, obs.last_get) :
          x.state = "deleted" /\ x.deleted_at = obs.last_get.at


\* the remote pull requests, issues and comments of a repository whose last
\* update is at or before `cp`, as (table, id, updated_at)
UpdatedBy(r, cp) ==
    {<<"pull_requests", x.id, x.updated_at>> :
        x \in {y \in gh.pulls[r] : y.updated_at <= cp}}
    \cup {<<"issues", x.id, x.updated_at>> :
        x \in {y \in gh.issues[r] : y.status = 200 /\ y.updated_at <= cp}}
    \cup {<<"issue_comments", x.id, x.updated_at>> :
        x \in {y \in gh.issue_comments[r] : y.updated_at <= cp}}
    \cup {<<"pr_review_comments", x.id, x.updated_at>> :
        x \in {y \in gh.pr_comments[r] : y.updated_at <= cp}}

\* C2: after a successful sync run during which the remote content did not
\* change (whatever changed during the runs before it), every remote pull
\* request, issue and comment updated at or before the repository's stored
\* checkpoint has a local row with that update.
C2_CheckpointIsWatermark ==
    pc = "idle" /\ obs.cmd = "Sync" /\ obs.result = "ok" /\ obs.clean
        => \A r \in Eligible :
              \A u \in UpdatedBy(r, Checkpoint(db.app_state, r)) :
                 \E x \in db[u[1]] : x.id = u[2] /\ x.updated_at = u[3]

\* C3: a row of issues that has state 'deleted' and a deleted_at keeps both
\* in every step.
C3_DeletedIsTerminal ==
    [][\A x \in db.issues :
          x.state = "deleted" /\ x.deleted_at # NULL
             => \E y \in db.issues' :
                   /\ y.id = x.id
                   /\ y.state = "deleted"
                   /\ y.deleted_at = x.deleted_at]_vars


\* the users of a repository's stargazers rows
LocalStargazers(store, r) == {x.user : x \in {y \in store.stargazers : y.repo = r}}

\* C11: when sync_stars returns Ok for a repository, the users of that
\* repository's stargazers rows are the users of the remote stargazer
\* listing: each listed user has a row, and the rows of the others are gone.
C11_StargazersReconciled ==
    [][pc = "sync_stars" /\ ret' = "sync_commits"
          => LocalStargazers(db', repo) = {e.user : e \in gh.stars[repo]}]_vars

\* a sync run ended Ok that found a stored stargazer no longer listed, and
\* others still listed
C11_Witness ==
    /\ obs.cmd = "Sync" /\ obs.result = "ok"
    /\ "u3" \in LocalStargazers(obs.run_db, "a") \ LocalStargazers(db, "a")
    /\ "u3" \notin {e.user : e \in gh.stars["a"]}
    /\ LocalStargazers(db, "a") # {}


\* C12: no row of issues has the number or the id of a remote pull request of
\* its repository, in any state of any run.
C12_NoPullRequestInIssues ==
    \A x \in db.issues : \A p \in gh.pulls[x.repo] :
        p.number # x.number /\ p.id # x.id

\* the issue loop of a pass returned Ok on a listing that holds records with
\* the pull_request marker, and stored rows
C12_Witness ==
    /\ obs.passing = "a" /\ pc = "sync_issue_comments"
    /\ \E i \in 1..Len(ListIssues("a", "all", loc.since)) :
          ListIssues("a", "all", loc.since)[i].pull_request
    /\ \E x \in db.issues : x.repo = "a"

\* the newest day a table of daily_metrics has a row for
MaxDate(table) ==
    CHOOSE d \in {x.date : x \in table} : \A x \in table : x.date <= d

\* the rows a step deletes, adds or changes
Touched(before, after) == (before \ after) \cup (after \ before)

\* C13: with daily_metrics rows stored up to day D, a compute_metrics run
\* deletes, adds or changes only rows dated from D - 3 to today; every row
\* dated before D - 3 is there after the run with the same values.
C13_WindowFrame ==
    [][pc = "compute_metrics" /\ db.daily_metrics # {}
          => \A x \in Touched(db.daily_metrics, db'.daily_metrics) :
                /\ MaxDate(db.daily_metrics) - 3 <= x.date
                /\ x.date <= Date(now)]_vars

\* a run has ended on a table that had a row dated before D - 3, still there,
\* and a row in the window, rewritten
C13_Witness ==
    /\ pc = "idle" /\ obs.metrics # "none"
    /\ \E x \in obs.run_db.daily_metrics :
          /\ x.date < MaxDate(obs.run_db.daily_metrics) - 3
          /\ x \in db.daily_metrics
    /\ obs.run_db.daily_metrics \ db.daily_metrics # {}


\* the first day of the window of a run that starts on this table
WindowStart(table) ==
    IF table = {} THEN METRICS_EPOCH ELSE MaxDate(table) - 3

C15_AggregationIdempotent ==
    [][pc = "compute_metrics" /\ obs.computed_on = Date(now)
          => \A d \in WindowStart(db.daily_metrics)..Date(now) :
                {x \in db'.daily_metrics : x.date = d}
                    = {x \in db.daily_metrics : x.date = d}]_vars


\* the instants of the comments, reviews and review comments on item n of r
\* by another author than the item's, strictly after its creation
Responses(store, r, n, author, created) ==
    {x.created_at : x \in {y \in store.issue_comments :
        y.repo = r /\ y.issue_number = n /\ y.author # author
        /\ y.created_at > created}}
    \cup
    {x.submitted_at : x \in {y \in store.pr_reviews :
        y.repo = r /\ y.pr_number = n /\ y.author # author
        /\ y.submitted_at > created}}
    \cup
    {x.created_at : x \in {y \in store.pr_review_comments :
        y.repo = r /\ y.pr_number = n /\ y.author # author
        /\ y.created_at > created}}

\* the issues and pull requests of r created on day d that have a response
Responded(store, r, d) ==
    {x \in store.issues \cup store.pull_requests :
        /\ x.repo = r /\ x.created_at >= 0 /\ Date(x.created_at) = d
        /\ Responses(store, r, x.number, x.author, x.created_at) # {}}

\* the time from the creation of an item to its first response
FirstResponse(store, x) ==
    LET ts == Responses(store, x.repo, x.number, x.author, x.created_at)
    IN  (CHOOSE t \in ts : \A u \in ts : t <= u) - x.created_at

\* C16: after a compute_metrics run, for every day of its window and active
\* repository with items created that day that have a response (a comment,
\* review or review comment by another author, strictly after creation),
\* the row's time_to_first_response is the average over those items of the
\* time from creation to the earliest such response.
C16_ResponseTime ==
    [][pc = "compute_metrics"
          => \A d \in WindowStart(db.daily_metrics)..Date(now) :
                \A r \in active_repos(db) :
                    Responded(db, r, d) # {}
                    => \E x \in db'.daily_metrics :
                          /\ x.date = d /\ x.repo = r
                          /\ x.time_to_first_response.n > 0
                          /\ x.time_to_first_response.sum
                                  * Cardinality(Responded(db, r, d))
                               = SumOf([i \in Responded(db, r, d)
                                           |-> FirstResponse(db, i)])
                                  * x.time_to_first_response.n]_vars


\* the pull requests of r merged on day d whose author association is one
\* of `among`
MergedBy(store, r, d, among) ==
    {x \in store.pull_requests :
        /\ x.repo = r /\ x.merged_at # NULL /\ Date(x.merged_at) = d
        /\ x.data.author_association \in among}

\* the mean `value` is the average time from creation to merge over `prs`
IsMergeTime(value, prs) ==
    /\ value.n > 0
    /\ value.sum * Cardinality(prs)
         = SumOf([x \in prs |-> x.merged_at - x.created_at]) * value.n

\* the associations a stored pull request carries other than the internal ones
External == {"CONTRIBUTOR", "FIRST_TIME_CONTRIBUTOR", "FIRST_TIMER", "NONE"}

\* C17: after a compute_metrics run, for every day of its window and active
\* repository, time_to_merge_internal is the average merge time of the pull
\* requests merged that day by an OWNER, MEMBER or COLLABORATOR, and
\* time_to_merge_external that of those with any other association; no pull
\* request is counted in both.
C17_MergeTimeSplit ==
    [][pc = "compute_metrics"
          => \A d \in WindowStart(db.daily_metrics)..Date(now) :
                \A r \in active_repos(db) :
                    MergedBy(db, r, d, internal \cup External) # {}
                    => \E x \in db'.daily_metrics :
                          /\ x.date = d /\ x.repo = r
                          /\ MergedBy(db, r, d, internal) # {}
                             => IsMergeTime(x.time_to_merge_internal,
                                            MergedBy(db, r, d, internal))
                          /\ MergedBy(db, r, d, External) # {}
                             => IsMergeTime(x.time_to_merge_external,
                                            MergedBy(db, r, d, External))]_vars


\* C18: in a Sync command compute_metrics starts only after sync_org has
\* returned Ok, every eligible repository synced to its checkpoint write; when
\* sync_org returns an error compute_metrics does not run and daily_metrics
\* stays as it was when the command started.
C18_MetricsAfterSync ==
    /\ [](pc = "compute_metrics"
            => /\ obs.cmd = "Sync" /\ obs.result = "ok" /\ obs.failed = ""
               /\ Eligible \subseteq obs.committed)
    /\ [](obs.cmd = "Sync" /\ obs.result = "err"
            => /\ pc = "idle" /\ obs.metrics = "none"
               /\ db.daily_metrics = obs.run_db.daily_metrics)
    /\ [][db'.daily_metrics # db.daily_metrics
               \/ (obs'.metrics # obs.metrics /\ obs'.metrics # "none")
            => pc = "compute_metrics"]_vars

\* a Sync command has ended with the error of sync_org, on a store whose
\* daily_metrics an earlier command had written
C18_Witness ==
    /\ obs.cmd = "Sync" /\ obs.result = "err" /\ pc = "idle"
    /\ obs.committed # {}
    /\ db.daily_metrics # {}


\* C19: when the quota call of check_limits fails, check_limits returns the
\* error: the call it guards is not made, the store is not written again,
\* and the run ends with the error.
C19_QuotaCheckFatal ==
    /\ [][pc = "check_limits" /\ obs'.limits = "err"
            => /\ pc' = Driver /\ pc' # ret /\ loc'.err
               /\ db' = db /\ obs'.touched = obs.touched]_vars
    /\ [][obs.limits = "err" /\ obs.result = "running"
            => /\ pc' = "idle" /\ obs'.result = "err"
               /\ db' = db /\ obs'.touched = obs.touched]_vars

\* a run has ended with the error of a quota call made after part of the
\* work was done
C19_Witness ==
    /\ pc = "idle" /\ obs.result = "err" /\ obs.limits = "err"
    /\ obs.committed # {}
    /\ db # obs.run_db


\* C20: a LoadGoals command whose configuration has a goal with a
\* warning_ratio outside the open interval (0, 1) ends with the validation
\* error and leaves the goals table exactly as it was, whatever the order
\* the entries are processed in.
C20_GoalsValidatedBeforeWrite ==
    [][pc = "idle" /\ obs'.cmd = "LoadGoals" /\ obs'.result = "err"
          => db'.goals = db.goals]_vars


\* C21: a check_limits whose quota call succeeded sleeps if and only if the
\* remaining quota is strictly below 50; with 50 or more it returns at once.
C21_SleepsIffLow ==
    [][pc = "check_limits" /\ obs'.limits = "ok"
          => /\ (obs'.slept # None) <=> (gh.rate.remaining < 50)
             /\ gh.rate.remaining >= 50 => now' = now + 1]_vars

\* a check_limits has slept under a remaining quota of 49, and the run went on
C21_Witness ==
    /\ obs.limits = "ok" /\ obs.slept # None
    /\ gh.rate.remaining = 49
    /\ pc = "fetch_repos"

\* C22 as stated: the sleep lasts reset - now + 10 seconds, floored at 0.
C22_SleepFlooredAtZero ==
    [][pc = "check_limits" /\ obs'.slept # None
          => obs'.slept = (IF gh.rate.reset - (now + 1) + 10 > 0
                           THEN gh.rate.reset - (now + 1) + 10 ELSE 0)]_vars

\* C22, amended: the sleep lasts the time left until the reset, floored at
\* 0, plus 10 seconds: never less than 10 seconds, and exactly 10 when the
\* reset lies in the past. The caller resumes after that time.
C22_SleepIsFlooredWaitPlusTen ==
    [][pc = "check_limits" /\ obs'.slept # None
          => /\ obs'.slept = (IF gh.rate.reset > now + 1
                              THEN gh.rate.reset - (now + 1) ELSE 0) + 10
             /\ obs'.slept >= 10
             /\ now' = now + 1 + obs'.slept]_vars

\* a check_limits has slept 10 seconds on a reset time more than 10 seconds
\* in the past
C22_Witness ==
    /\ obs.limits = "ok" /\ obs.slept = 10
    /\ gh.rate.reset + 10 < now - obs.slept

\* the fetch loops a pass has behind it when it stands at a step of sync_repo
\* (client.rs 184-196); None for a step outside sync_repo
LoopsBefore(site) ==
    CASE site \in {"sync_pull_requests", "sync_pull_requests_item",
                   "sync_reviews"}                               -> 0
      [] site = "sync_issues"                                    -> 1
      [] site = "sync_issue_comments"                            -> 2
      [] site = "sync_pr_comments"                               -> 3
      [] site = "sync_stars"                                     -> 4
      [] site \in {"sync_commits", "sync_commits_sha",
                   "sync_commits_detail"}                        -> 5
      [] site = "sync_workflows"                                 -> 6
      [] site = "sync_repo_commit"                               -> 7
      [] OTHER                                                   -> None

\* the step the program stands at: the caller's, while check_limits runs
Standing == IF pc = "check_limits" THEN ret ELSE pc

\* C23: within one pass of sync_repo the phases run in the order pull requests
\* (with their reviews), issues, issue comments, review comments, stars,
\* commits, workflow runs, checkpoint write: a step of a phase is reached only
\* with exactly the earlier phases returned Ok, in that order; the list of
\* returned phases only grows by the next one of the order, so none is skipped
\* or repeated; and the checkpoint is written with all seven behind.
C23_PhaseOrder ==
    /\ [](LoopsBefore(Standing) # None
            => /\ obs.loops = SubSeq(SevenLoops, 1, LoopsBefore(Standing))
               /\ obs.passing = repo)
    /\ [][obs'.loops # obs.loops
            => \/ obs'.loops = <<>> /\ Standing \notin {"sync_repo_commit"}
                                    /\ LoopsBefore(Standing) = None
               \/ /\ Len(obs.loops) < Len(SevenLoops)
                  /\ obs'.loops = Append(obs.loops, SevenLoops[Len(obs.loops) + 1])
                  /\ LoopsBefore(Standing) = Len(obs.loops)
                  /\ obs'.failed = ""]_vars
    /\ [][db'.app_state # db.app_state
            => pc = "sync_repo_commit" /\ obs.loops = SevenLoops]_vars

\* a pass wrote its checkpoint, and the next repository's pass is at its
\* fourth phase
C23_Witness ==
    /\ obs.committed # {}
    /\ Standing = "sync_pr_comments"
    /\ obs.loops = <<"pull_requests", "issues", "issue_comments">>

\* the repositories of the run whose pass is open: begun or fetched for, and
\* their checkpoint not written by this run
InPass == (obs.touched \cup (IF obs.passing = "" THEN {} ELSE {obs.passing}))
              \ obs.committed

\* C24: sync_org takes the repositories strictly one at a time: during a Sync
\* command at most one repository is between the start of its pass and the
\* write of its checkpoint, that repository is the one the program works on,
\* and a pass starts only when the checkpoint of every repository begun or
\* fetched for earlier in the run has been written.
C24_OneRepositoryAtATime ==
    /\ [](obs.cmd = "Sync"
            => /\ Cardinality(InPass) <= 1
               /\ obs.result = "running" => InPass \subseteq {repo})
    /\ [][pc = "sync_repo" /\ pc' = "check_limits" => InPass = {}]_vars

\* a second repository's pass has fetched, after the first one's checkpoint
C24_Witness ==
    /\ obs.cmd = "Sync" /\ obs.result = "running"
    /\ obs.committed # {}
    /\ InPass = {repo} /\ repo \in obs.touched
    /\ pc = "sync_issues"

\* the listed repositories that are archived, or private, or named private_*
Excluded ==
    {OrgRepos[i].name : i \in {j \in 1..Len(OrgRepos) :
                                  \/ OrgRepos[j].archived = "true"
                                  \/ OrgRepos[j].private = "true"}}
        \cup {"private_c"}

\* the repositories the rows of a store are about
StoreRepos(store) ==
    UNION {{x.repo : x \in store[t]} : t \in RawTables}
        \cup {r \in RepoNames : CheckpointRow(store.app_state, r) # {}}

\* C25: the repositories sync_org and sweep_org process are exactly the listed
\* ones that are not archived, not private and not named private_*: the list
\* a successful fetch_repos returns is those, each once; no remote call is made and
\* no row is stored for an excluded one; and a sync_org that returned Ok wrote
\* the checkpoint of each of the others.
C25_OnlyPublicActiveRepositories ==
    /\ [](/\ obs.touched \cap Excluded = {}
          /\ repo \notin Excluded
          /\ StoreRepos(db) \cap Excluded = {}
          /\ obs.cmd = "Sync" /\ obs.result = "ok"
                => obs.committed = RepoNames \ Excluded)
    /\ [][pc = "fetch_repos" /\ pc' \in {"sync_org", "sweep_org"} /\ ~loc'.err
            => /\ Names(repos') = RepoNames \ Excluded
               /\ \A i, j \in 1..Len(repos') : i # j => repos'[i] # repos'[j]]_vars

\* a Sync whose sync_org returned Ok, with the repositories of every excluded
\* kind listed and starred
C25_Witness ==
    /\ obs.cmd = "Sync" /\ obs.result = "ok"
    /\ Excluded = {"private_c", "d", "e"}
    /\ \A r \in Excluded : gh.stars[r] # {}
    /\ StoreRepos(db) = {"a", "b"}
    /\ obs.touched = {"a", "b"}

\* the answer to the single-issue request of the step being taken
Answer == obs'.last_get.result

\* an answer that is neither an issue nor a not-found / gone error
OtherFailure(result) ==
    /\ ~result.ok
    /\ ~ /\ result.err.github
         /\ \/ result.err.status_code \in {404, 410}
            \/ result.err.message \in {"Not Found", "Not Found."}

\* C26: in sweep_repo, a single-issue fetch that fails with an error other
\* than not-found / gone aborts the sweep: that step changes no row, so the
\* issue's row is as it was, and from then on the command makes no further
\* single-issue fetch and changes no row: it returns the error.
C26_SweepAbortsOnOtherError ==
    /\ [][pc = "sweep_repo_get" /\ pc' # pc /\ OtherFailure(Answer)
            => /\ db' = db
               /\ pc' = "idle" \/ (pc' = "sweep_org" /\ loc'.err)]_vars
    /\ [][loc.cmd = "Sweep" /\ loc.err
            => /\ db' = db
               /\ obs'.last_get = obs.last_get
               /\ obs'.touched = obs.touched
               /\ pc' = "idle" /\ obs'.result = "err"]_vars

\* the sweep of a failed on the request for one of two issues to look at, the
\* other one not asked for, both rows still open
C26_Witness ==
    /\ obs.cmd = "Sweep" /\ obs.result = "err"
    /\ OtherFailure(obs.last_get.result)
    /\ obs.last_get.repo = "a"
    /\ \E x, y \in db.issues :
          /\ x.repo = "a" /\ y.repo = "a" /\ x.number = obs.last_get.number
          /\ y.number \in {4, 5, 6} \ {x.number}
          /\ x.state = "open" /\ x.deleted_at = NULL
          /\ y.state = "open" /\ y.deleted_at = NULL
          /\ \A i \in gh.issues["a"] :
                i.number \in {x.number, y.number} => i.status # 200 \/ i.state # "open"

\* the numbers the remote lists as open in a repository
RemoteOpen(r) == {x.number : x \in {y \in IssueItems(r) : y.state = "open"}}

\* a row the store holds as open
LocallyOpen(x) == x.state = "open" /\ x.closed_at = NULL /\ x.deleted_at = NULL

\* C27: a Sweep command changes only rows of the issues table that are
\* locally open (state open, no closed_at, no deleted_at) and whose number is
\* not in the remote open set of their repository, and only in the sweep of
\* that repository; it adds and removes no row; rows in the remote open set
\* and rows already closed or marked deleted stay as they are; every other
\* table, the checkpoints included, stays as it is, and no checkpoint is read.
C27_SweepFrame ==
    /\ [][loc.cmd = "Sweep"
            => /\ \A x \in db.issues :
                     x \notin db'.issues
                        => /\ LocallyOpen(x)
                           /\ x.repo = repo
                           /\ x.number \notin RemoteOpen(x.repo)
                           /\ pc = "sweep_repo_get"
               /\ {x.id : x \in db'.issues} = {x.id : x \in db.issues}
               /\ Cardinality(db'.issues) = Cardinality(db.issues)
               /\ \A t \in DOMAIN db \ {"issues"} : db'[t] = db[t]]_vars
    /\ [](loc.cmd = "Sweep" => loc.since = EPOCH)

\* a sweep that returned Ok changed a row, with an open row listed as open, a
\* closed row reopened on the remote side and a row marked deleted as they were
C27_Witness ==
    /\ obs.cmd = "Sweep" /\ obs.result = "ok"
    /\ \E x \in SweepIssues : x.repo = "a" /\ x \notin db.issues
    /\ \E x \in SweepIssues \cap db.issues :
          LocallyOpen(x) /\ x.repo = "a" /\ x.number \in RemoteOpen("a")
    /\ \E x \in SweepIssues \cap db.issues :
          x.state = "closed" /\ x.number \in RemoteOpen("a")
    /\ \E x \in SweepIssues \cap db.issues :
          x.deleted_at # NULL /\ x.number \notin RemoteOpen("a")
    /\ db.app_state = SweepStore.app_state

\* an item whose update timestamp is strictly older than the watermark
Older(x, since_) == x.updated_at \notin {NULL, Blank} /\ x.updated_at < since_

\* the items of a page before the first one older than the watermark
UpToOlder(items, since_) ==
    LET old == {i \in 1..Len(items) : Older(items[i], since_)}
    IN  IF old = {} THEN items
        ELSE SubSeq(items, 1, (CHOOSE i \in old : \A j \in old : i <= j) - 1)

\* the page a step of one of the three listing loops receives
Received ==
    CASE pc = "sync_issues" ->
             Page(ListIssues(repo, "all", loc.since), loc.cursor)
      [] pc = "sync_issue_comments" ->
             Page(ListIssueComments(repo, loc.since), loc.cursor)
      [] pc = "sync_pr_comments" ->
             Page(ListPrComments(repo, loc.since), loc.cursor)

\* the items of that page the claim has the loop keep
Kept == UpToOlder(Received.items, loc.since)

\* the rows such a step stores for the items it keeps
Stored(kept) ==
    CASE pc = "sync_issues" ->
             LET issues == SelectSeq(kept, LAMBDA x : ~x.pull_request)
             IN  [i \in 1..Len(issues) |-> issue_row(repo, issues[i])]
      [] pc = "sync_issue_comments" ->
             [i \in 1..Len(kept) |-> issue_comment_row(repo, kept[i])]
      [] pc = "sync_pr_comments" ->
             [i \in 1..Len(kept) |-> pr_review_comment_row(repo, kept[i])]

ListingLoops == {"sync_issues", "sync_issue_comments", "sync_pr_comments"}

TableOf(step) ==
    CASE step = "sync_issues"         -> "issues"
      [] step = "sync_issue_comments" -> "issue_comments"
      [] step = "sync_pr_comments"    -> "pr_review_comments"

\* C28: each of the four loops over a listing sorted by update time stops at
\* the first item whose update timestamp is strictly older than the watermark:
\* that item and the rest of its page are not upserted and no further page is
\* fetched; the items before it, those updated exactly at the watermark
\* included, are upserted, and without such an item the next page is fetched.
C28_EarlyTermination ==
    /\ [][pc = "sync_pull_requests_item" /\ loc.items # <<>>
            => IF Older(Head(loc.items), loc.since)
               THEN db' = db /\ loc'.items = <<>> /\ ~loc'.keep_fetching
               ELSE /\ db' = [db EXCEPT !.pull_requests =
                              InsertOrReplace(@, pull_request_row(repo, Head(loc.items)),
                                              {"id"})]
                    /\ loc'.items = Tail(loc.items)
                    /\ loc'.keep_fetching = loc.keep_fetching]_vars
    /\ [][pc = "sync_pull_requests_item" /\ loc.items = <<>>
            => /\ db' = db
               /\ (ret' = "sync_pull_requests")
                     <=> (loc.keep_fetching /\ loc.next # None)]_vars
    /\ [][(pc \in ListingLoops /\ pc' = "check_limits")
            => /\ db' = [db EXCEPT ![TableOf(pc)] =
                            InsertOrReplaceAll(@, Stored(Kept), {"id"})]
               /\ (ret' = pc) <=> (Kept = Received.items /\ Received.next # None)
               /\ (ret' = pc) => (loc'.cursor = Received.next)]_vars

\* a pass with watermark 7 against a remote that applies `since` by the day:
\* the issue and the comment updated at 7 are stored, the older ones of the
\* same listings are not
C28_Witness ==
    /\ repo = "a" /\ loc.since = 7 /\ gh.since_grain = DayLen
    /\ obs.run_db.issues = {} /\ obs.run_db.pull_requests = {}
    /\ Len(obs.loops) >= 4
    /\ {x.number : x \in db.pull_requests} = {1}
    /\ {x.number : x \in db.issues} = {4}
    /\ {x.id : x \in db.issue_comments} = {112, 113}
    /\ {x.id : x \in db.pr_review_comments} = {123}

\* the pull request a step of the loop of sync_pull_requests looks at
Looked == Head(loc.items)

\* C29: the reviews of a pull request are listed if and only if the pull
\* request was upserted in this pass and carries an update timestamp at or
\* after the watermark: a pull request older than the watermark, or one without
\* an update timestamp, never causes a review listing, and every review
\* listing is for such an upserted pull request of the repository.
C29_ReviewsOnlyForFreshPulls ==
    /\ [][(pc = "sync_pull_requests_item" /\ loc.items # <<>>)
            => /\ (pc' = "sync_reviews")
                     <=> /\ db'.pull_requests =
                                InsertOrReplace(db.pull_requests,
                                                pull_request_row(repo, Looked), {"id"})
                         /\ Looked.updated_at # NULL
                         /\ Looked.updated_at >= loc.since
               /\ (pc' = "sync_reviews") => (loc'.pr_number = Looked.number)]_vars
    /\ [](Standing = "sync_reviews"
            => \E x \in db.pull_requests :
                  /\ x.repo = repo /\ x.number = loc.pr_number
                  /\ x.updated_at # Blank /\ x.updated_at >= loc.since)
    /\ [][(db'.pr_reviews # db.pr_reviews) => (pc = "sync_reviews")]_vars

\* the pass of b stored its pull request without updated_at and the fresh one,
\* and listed the reviews of the fresh one only
C29_Witness ==
    /\ repo = "b" /\ Len(obs.loops) >= 1
    /\ {x.id : x \in {y \in db.pull_requests : y.repo = "b"}} = {201, 203}
    /\ \E x \in db.pull_requests : x.id = 203 /\ x.updated_at = Blank
    /\ {x.id : x \in {y \in db.pr_reviews : y.repo = "b"}} = {231}
    /\ \E r \in gh.reviews["b"] : r.id = 232 /\ r.number = 3

\* the issues among the items a step of sync_issues keeps
KeptIssues == {x \in Range(Kept) : ~x.pull_request}

\* the rows of a table under the primary key `id`
WithId(table, id) == {y \in table : y.id = id}

\* C30: an upsert replaces the whole row: after a pull request or an issue
\* with primary key k is upserted, the table holds exactly one row with key k,
\* and it is the row derived from the new record alone, every column that the
\* record does not supply at its default (deleted_at: NULL); the rows with
\* other keys stay as they are.
C30_UpsertReplacesRow ==
    /\ [][(pc = "sync_pull_requests_item" /\ loc.items # <<>>
             /\ ~Older(Looked, loc.since))
            => /\ WithId(db'.pull_requests, Looked.id)
                     = {pull_request_row(repo, Looked)}
               /\ \A y \in WithId(db'.pull_requests, Looked.id) :
                     /\ y.state = Looked.state /\ y.author = Looked.author
                     /\ y.merged_at = Looked.merged_at
                     /\ y.closed_at = Looked.closed_at
                     /\ y.deleted_at = NULL
               /\ db'.pull_requests \ WithId(db'.pull_requests, Looked.id)
                     = db.pull_requests \ WithId(db.pull_requests, Looked.id)]_vars
    /\ [][(pc = "sync_issues" /\ pc' = "check_limits")
            => /\ \A x \in KeptIssues :
                     /\ WithId(db'.issues, x.id) = {issue_row(repo, x)}
                     /\ \A y \in WithId(db'.issues, x.id) :
                           /\ y.state = x.state /\ y.author = x.author
                           /\ y.created_at = x.created_at
                           /\ y.updated_at = x.updated_at
                           /\ y.closed_at = x.closed_at
                           /\ y.deleted_at = NULL
               /\ {y \in db'.issues : \A x \in KeptIssues : y.id # x.id}
                     = {y \in db.issues : \A x \in KeptIssues : y.id # x.id}]_vars

\* the stale rows of pull request 101 and issue 104 were replaced: one row
\* each, no column as it was but the key, the repository and the number
C30_Witness ==
    /\ obs.run_db.issues = StaleRows.issues
    /\ obs.run_db.pull_requests = StaleRows.pull_requests
    /\ \E y \in db.pull_requests : \E old \in StaleRows.pull_requests :
          /\ WithId(db.pull_requests, 101) = {y}
          /\ \A c \in DOMAIN y \ {"id", "repo", "number", "merged_at", "deleted_at"} :
                y[c] # old[c]
    /\ \E y \in db.issues : \E old \in StaleRows.issues :
          /\ WithId(db.issues, 104) = {y}
          /\ \A c \in DOMAIN y \ {"id", "repo", "number"} : y[c] # old[c]

\* C31: the watermark sync_repo reads is the epoch when the store has no
\* checkpoint row of the repository, and otherwise the value of that row,
\* which is the instant the last successful pass of the repository wrote:
\* the row is written by the checkpoint step of a pass of that repository
\* only, with the clock of that step.
C31_WatermarkIsLastCheckpoint ==
    /\ [][(pc = "sync_repo" /\ pc' = "check_limits")
            => /\ CheckpointRow(db.app_state, repo) = {} => loc'.since = EPOCH
               /\ \A x \in CheckpointRow(db.app_state, repo) : loc'.since = x.value]_vars
    /\ [][\A r \in RepoNames :
             CheckpointRow(db'.app_state, r) # CheckpointRow(db.app_state, r)
                => /\ pc = "sync_repo_commit" /\ r = repo
                   /\ obs.loops = SevenLoops
                   /\ CheckpointRow(db'.app_state, r)
                        = {[key |-> last_sync_key(ORG, r), value |-> now + 1]}]_vars

\* a pass reads the checkpoint an earlier run wrote for its repository, and
\* the same command has read the epoch for a repository without a checkpoint
C31_Witness ==
    /\ Standing = "sync_pull_requests"
    /\ loc.since > Now0
    /\ obs.pass_cp = {[key |-> last_sync_key(ORG, repo), value |-> loc.since]}
    /\ \E r \in RepoNames \ Excluded : CheckpointRow(db.app_state, r) = {}

\* a loop of the pass of the current repository has returned Ok
LoopIsDone(name) == obs.passing = repo /\ \E i \in 1..Len(obs.loops) : obs.loops[i] = name

\* the loops of sync_issues and sync_workflows store a row for every record
\* of the listing, the absent leaf fields at their defaults
BareIssuesAndRunsStored ==
    /\ LoopIsDone("issues")
          => \A x \in gh.issues[repo] :
                \E y \in db.issues :
                   /\ y.repo = repo /\ y.id = OrNum(x.id, 0)
                   /\ y.state = OrText(x.state, "unknown")
                   /\ y.author = OrText(x.author, "unknown")
                   /\ y.created_at = OrNum(x.created_at, Blank)
    /\ LoopIsDone("workflows")
          => \A x \in gh.runs[repo] :
                \E y \in db.workflow_runs :
                   /\ y.repo = repo /\ y.id = OrNum(x.id, 0)
                   /\ y.conclusion = OrText(x.conclusion, "in_progress")
                   /\ y.created_at = OrNum(x.created_at, Blank)
                   /\ y.duration_ms = (IF x.created_at # NULL /\ x.updated_at # NULL
                                       THEN x.updated_at - x.created_at ELSE 0)

\* C32: a record with missing leaf fields never aborts its page: the loop
\* stores a row for it, the missing fields at their empty / zero / 'unknown'
\* defaults, and goes on, so that after a loop of issues, workflow runs or
\* stargazers has returned Ok every record of the listing has its row.
C32_BareRecordsStored ==
    /\ BareIssuesAndRunsStored
    /\ LoopIsDone("stars")
          => \A e \in gh.stars[repo] :
                \E y \in db.stargazers :
                   /\ y.repo = repo /\ y.user = OrText(e.user, "")
                   /\ y.starred_at = OrNum(e.starred_at, Blank)

\* C33: whenever compute_metrics has returned, with Ok or with an error, the
\* connection no longer holds the temporary response-time table
C33_TempTableDiscarded ==
    obs.metrics # "none" => ~obs.temp.exists

\* the steps of sync_repo and of sweep_repo
PassSteps ==
    {"sync_repo", "sync_pull_requests", "sync_pull_requests_item",
     "sync_reviews", "sync_issues", "sync_issue_comments", "sync_pr_comments",
     "sync_stars", "sync_commits", "sync_commits_sha", "sync_commits_detail",
     "sync_workflows", "sync_repo_commit",
     "sweep_repo", "sweep_repo_issue", "sweep_repo_get"}

\* the step that fetches the pages of the loop a step belongs to
FetchOf(step) ==
    CASE step = "sync_pull_requests_item" -> "sync_pull_requests"
      [] step \in {"sync_commits_sha", "sync_commits_detail"} -> "sync_commits"
      [] OTHER -> step

\* C34: every paginated fetch loop terminates: a loop that goes on to another
\* page asks for the page after the one it has, the page cursor of a loop
\* only moves to the next page and goes back to the first page only when the
\* loop is left, so no page is fetched twice; and a sync_repo or sweep_repo
\* that has started eventually returns (to its caller, with Ok or an error,
\* or the process ends), as does the listing of the organisation's
\* repositories.
C34_FetchLoopsTerminate ==
    /\ [][(pc \in PassSteps \cup {"fetch_repos"} /\ pc' = "check_limits"
                /\ ret' = FetchOf(pc))
            => IF pc = "sync_reviews"
               THEN loc'.rcursor = loc.rcursor + 1
               ELSE loc'.cursor = loc.cursor + 1]_vars
    /\ [][(Standing \in PassSteps /\ Standing' \in PassSteps)
            => /\ loc'.cursor # loc.cursor
                    => \/ loc'.cursor = loc.cursor + 1
                       \/ loc'.cursor = 0 /\ (obs'.loops # obs.loops
                                                \/ pc' = "sweep_repo_issue")
               /\ loc'.rcursor # loc.rcursor
                    => \/ loc'.rcursor = loc.rcursor + 1
                       \/ loc'.rcursor = 0 /\ pc' = "sync_pull_requests_item"]_vars
    /\ (Standing \in PassSteps) ~> (Standing \notin PassSteps)
    /\ (Standing = "fetch_repos") ~> (Standing # "fetch_repos")

\* a pass that returned one loop and is on a later page of another
C34_Witness ==
    /\ pc \in {"sync_stars", "sync_commits", "sweep_repo"}
    /\ loc.cursor > 0

\* the ratio the threshold of a stored goal is to be taken with
RatioOf(x) ==
    IF x.warning_ratio # {} THEN CHOOSE r \in x.warning_ratio : TRUE
    ELSE IF x.direction = "lower_is_better" THEN 75 ELSE 70

\* C35: for every stored goal with a direction the view goal_thresholds has
\* one row and list_goals one Goal, the view's warning_value and
\* Goal::warning_value are equal, and they are the value times the goal's
\* ratio when it has one, else times 0.75 (lower_is_better) or 0.70
\* (higher_is_better).
C35_WarningThreshold ==
    \A x \in db.goals :
        x.direction # NullText
          => /\ \E v \in goal_thresholds(db.goals) : v.metric = x.metric
             /\ \E g \in list_goals(db.goals) : g.metric = x.metric
             /\ \A v \in goal_thresholds(db.goals) :
                  \A g \in list_goals(db.goals) :
                     v.metric = x.metric /\ g.metric = x.metric
                       => /\ v.warning_value = warning_value(g)
                          /\ v.warning_value = x.value * RatioOf(x)

\* two goals are stored, one with a ratio of its own and one without, of
\* different directions
C35_Witness ==
    \E x, y \in db.goals :
        /\ x.warning_ratio = {} /\ y.warning_ratio # {}
        /\ x.direction = "higher_is_better" /\ y.direction = "lower_is_better"

\* C36: every column an UPDATE of compute_metrics sets is a column of
\* daily_metrics, and a compute_metrics run on a store with an active
\* repository returns Ok.
C36_RecomputeSucceeds ==
    (obs.metrics # "none" /\ active_repos(db) # {})
        => /\ \A k \in DOMAIN daily_updates :
                daily_updates[k] \subseteq daily_metrics_columns
           /\ obs.metrics = "ok"

\* the days from the day an issue was marked deleted to today
DeletedDays(x) == Date(x.deleted_at)..Date(now)

\* the store without one row of issues
WithoutIssue(store, x) == [store EXCEPT !.issues = @ \ {x}]

\* C37: an issue the sweep has marked deleted is not counted as open: for
\* every day from the day of its deleted_at on, the values the UPDATEs of
\* open_issues_count and open_items_count compute for its repository are the
\* values they compute without that issue.
C37_DeletedNotCountedOpen ==
    \A x \in db.issues :
        x.deleted_at # NULL
          => \A d \in DeletedDays(x) :
                \A c \in {"open_issues_count", "open_items_count"} :
                    metric(c, db, {}, x.repo, d)
                        = metric(c, WithoutIssue(db, x), {}, x.repo, d)

\* the stargazers rows (by repository and user) that a step removes
RemovedStars ==
    {x \in db.stargazers :
        ~ \E y \in db'.stargazers : y.repo = x.repo /\ y.user = x.user}

\* the users of the stargazer page at the cursor
PageUsers == {e.user : e \in Range(Page(ListStargazers(repo), loc.cursor).items)}

\* C38: a stargazers row is removed only by the step of sync_stars that read
\* the last page of the remote listing, every page before it read, and only
\* rows of that repository whose user was on none of the pages; a step in
\* which a page fetch or the rate check fails, or the process ends, removes
\* no stargazers row.
C38_StarsDeletedAfterFullListing ==
    /\ [][RemovedStars # {}
            => /\ pc = "sync_stars"
               /\ Page(ListStargazers(repo), loc.cursor).next = None
               /\ obs'.loops = Append(obs.loops, "stars")
               /\ \A x \in RemovedStars :
                     x.repo = repo /\ x.user \notin loc.remote_users \cup PageUsers]_vars
    /\ [][(loc'.err \/ obs'.result \in {"err", "killed"}) => RemovedStars = {}]_vars

\* the pass of a repository failed after its first four loops, at the
\* stargazers, and the store still holds the row of a user who no longer
\* stars it
C38_Witness ==
    /\ loc.err /\ obs.failed # "" /\ Len(obs.loops) = 4
    /\ \E x \in db.stargazers :
         x.repo = obs.failed /\ ~ \E e \in gh.stars[obs.failed] : e.user = x.user

\* C39: a workflow run stored while it was running is corrected once the
\* remote run has its conclusion: a sync pass of its repository that returns
\* Ok after that leaves the stored row with the final conclusion and duration,
\* whatever the days of the run's creation and of the checkpoints in between.
C39_InProgressCorrected ==
    [][pc = "sync_repo_commit"
          => \A e \in gh.runs[repo] :
                e.conclusion # NullText
                  => \A x \in db'.workflow_runs :
                        (x.repo = repo /\ x.id = e.id)
                          => /\ x.conclusion = e.conclusion
                             /\ x.duration_ms = e.updated_at - e.created_at]_vars

\* the rows of a table that belong to other repositories than r
RowsOfOthers(table, r) == {x \in table : x.repo # r}

\* C40: a pass of sync_repo changes only the data of its repository: every
\* step of the pass, failed or not, leaves the raw rows of every other
\* repository and the checkpoint of every other repository as they are.
C40_PassFrame ==
    [][(Standing \in PassSteps /\ loc.cmd = "Sync")
          => \A r \in RepoNames \ {repo} :
                /\ \A t \in RawTables :
                     RowsOfOthers(db'[t], repo) = RowsOfOthers(db[t], repo)
                /\ CheckpointRow(db'.app_state, r) = CheckpointRow(db.app_state, r)]_vars

====
